---------------------------- MODULE Spec2Model ----------------------------
(***************************************************************************)
(* A model of typegrad: the View layer (shape/stride transforms), the      *)
(* Tensor operations built on it, the Op catalogue and Tensor.backward.    *)
(*                                                                         *)
(* Arrays are sequences (1-based); axis numbers, permutation orders and    *)
(* coordinates keep the 0-based values of the source.  A thrown Error is   *)
(* the `err' field of an operation's result, named after the message's     *)
(* bracketed prefix; "none" means the call returned.                        *)
(***************************************************************************)
EXTENDS Integers, Sequences, FiniteSets, TLC

\* Bounds of the model.
MaxRank == 3
MaxDim == 2
MaxNumel == 4
MaxLeafRank == 2
MaxBackward == 2
MaxGraphOps == 3
MaxGenerators == 2
UnitSteps == 4
MaxRuns == 2
MaxDraws == 2

VARIABLES
  view,      \* SpecView: the View instance the next View method is called on
  vcall,     \* SpecView: the last View method call and its outcome
  tensors,   \* the Tensor objects created so far (identity = position)
  buffers,   \* the Float32Array objects created so far (identity = position)
  held,      \* the tensors the caller holds: created by from or returned by a call
  call,      \* the last Tensor method call and its outcome
  nback,     \* number of backward calls made so far
  state,     \* ops.ts: the state of the pseudorandom number generator
  drawn      \* the runs of the generator: each a seed and the draws made since

vars == <<view, vcall, tensors, buffers, held, call, nback, state, drawn>>

-----------------------------------------------------------------------------
(* helpers.ts *)

\* The value standing for JS undefined where an array is read outside its indices.
Undefined == 0 - 1

\* The value standing for NaN, the product of undefined and a number.
NaN == 0 - 2

\* x * y on JS values
JsTimes(x, y) == IF {x, y} \cap {Undefined, NaN} # {} THEN NaN ELSE x * y

\* s[index] for a 0-based index that may lie outside the array
elemAt(s, index) == IF index \in 0..(Len(s) - 1) THEN s[index + 1] ELSE Undefined

\* a.every((ai, i) => ai === b[i]): only the indices of a are compared, and
\* b[i] is undefined (never === a number) past the end of b.
\* NaN is never === to anything, itself included.
equal(a, b) == \A i \in 1..Len(a) : i <= Len(b) /\ a[i] = b[i] /\ a[i] # NaN

RECURSIVE prod(_)
prod(data) == IF Len(data) = 0 THEN 1 ELSE Head(data) * prod(Tail(data))

\* Number of elements of data smaller than data[i], plus equal ones before it:
\* the rank of i in a stable ascending sort.
RankIn(data, i) ==
  Cardinality({j \in 1..Len(data) : data[j] < data[i] \/ (data[j] = data[i] /\ j < i)})

\* data.map((item, i) => [item, i]).sort(by item).map(a => a[1]), 0-based.
argsort(data) ==
  [k \in 1..Len(data) |-> (CHOOSE i \in 1..Len(data) : RankIn(data, i) = k - 1) - 1]

\* Array.prototype.slice(start, end) with JS index normalisation.
JsIndex(n, len) == IF n < 0 THEN (IF len + n < 0 THEN 0 ELSE len + n)
                   ELSE (IF n > len THEN len ELSE n)

slice(s, start, end) ==
  LET from == JsIndex(start, Len(s))
      to   == JsIndex(end, Len(s))
  IN  IF to <= from THEN <<>> ELSE SubSeq(s, from + 1, to)

\* Array.prototype.splice(start, deleteCount, ...items): the array afterwards.
splice(s, start, deleteCount, items) ==
  LET from == JsIndex(start, Len(s))
      del  == IF deleteCount > Len(s) - from THEN Len(s) - from ELSE deleteCount
  IN  SubSeq(s, 1, from) \o items \o SubSeq(s, from + del + 1, Len(s))

-----------------------------------------------------------------------------
(* view.ts *)

\* A faulty canonicalizeStrides: the strides are kept as they are.
canonicalizeStridesKept(shape, strides) == strides

canonicalizeStrides(shape, strides) ==
  [i \in 1..Len(strides) |-> IF shape[i] = 1 THEN 0 ELSE strides[i]]

\* strides[size-1] = 1; strides[i] = shape[i+1] * strides[i+1], then canonicalized.
RECURSIVE rawStrides(_)
rawStrides(shape) ==
  IF Len(shape) = 0 THEN <<>>
  ELSE IF Len(shape) = 1 THEN <<1>>
  ELSE LET rest == rawStrides(Tail(shape))
       IN  <<JsTimes(shape[2], rest[1])>> \o rest

stridesForShape(shape) == canonicalizeStrides(shape, rawStrides(shape))

\* new View(shape, strides)
ViewWith(shape, strides) ==
  LET s == canonicalizeStrides(shape, strides)
  IN  [shape |-> shape, strides |-> s, contiguous |-> equal(s, stridesForShape(shape))]

\* new View(shape)
View(shape) ==
  LET s == stridesForShape(shape)
  IN  [shape |-> shape, strides |-> s, contiguous |-> equal(s, s)]

VOk(v, same) == [err |-> "none", same |-> same, view |-> v]
VThrow(v, e) == [err |-> e, same |-> FALSE, view |-> v]

View_permute(this, order) ==
  IF Len(this.shape) # Len(order) THEN VThrow(this, "View.permute:length")
  ELSE LET shape == [i \in 1..Len(this.shape) |-> elemAt(this.shape, order[i])]
       IN  IF equal(shape, this.shape) THEN VOk(this, TRUE)
           ELSE VOk(ViewWith(shape,
                             [i \in 1..Len(this.strides) |-> elemAt(this.strides, order[i])]),
                    FALSE)

View_reshape(this, newShape) ==
  IF equal(newShape, this.shape) THEN VOk(this, TRUE)
  ELSE IF prod(this.shape) # prod(newShape) THEN VThrow(this, "View.reshape:size")
  ELSE IF this.contiguous THEN VOk(View(newShape), FALSE)
  ELSE VThrow(this, "View.reshape:noncontiguous")

View_expand(this, newShape) ==
  IF equal(newShape, this.shape) THEN VOk(this, TRUE)
  ELSE IF Len(this.shape) # Len(newShape) THEN VThrow(this, "View.expand:length")
  ELSE IF ~ \A i \in 1..Len(this.shape) :
              this.shape[i] = newShape[i] \/ this.shape[i] = 1
       THEN VThrow(this, "View.expand:values")
  ELSE VOk(ViewWith(newShape, this.strides), FALSE)

\* One odometer step of View.indices: carry from the last axis, then increment.
RECURSIVE carry(_, _, _)
carry(shape, indices, axis) ==
  IF axis >= 0 /\ indices[axis + 1] + 1 >= shape[axis + 1]
  THEN carry(shape, [indices EXCEPT ![axis + 1] = 0], axis - 1)
  ELSE IF axis >= 0 THEN [indices EXCEPT ![axis + 1] = @ + 1] ELSE indices

RECURSIVE yieldFrom(_, _, _, _)
yieldFrom(shape, indices, i, size) ==
  IF i >= size THEN <<>>
  ELSE <<indices>> \o yieldFrom(shape, carry(shape, indices, Len(shape) - 1), i + 1, size)

\* The sequence of coordinate tuples the generator yields.
View_indices(this) ==
  yieldFrom(this.shape, [i \in 1..Len(this.shape) |-> 0], 0, prod(this.shape))

\* indices.reduce((acc, index, i) => acc + index * strides[i], 0) of Tensor.get/set
RECURSIVE offsetFrom(_, _, _)
offsetFrom(indices, strides, i) ==
  IF i > Len(indices) THEN 0
  ELSE indices[i] * strides[i] + offsetFrom(indices, strides, i + 1)

offset(v, indices) == offsetFrom(indices, v.strides, 1)

-----------------------------------------------------------------------------
(* tensor.ts: the heap and the Tensor class *)

\* A world w is the heap: [tensors, buffers].  A Tensor is
\* [data, view, grad, op, requiresGrad]: data a buffer id, grad a tensor id or 0
\* (undefined), requiresGrad one of "true", "false", "undefined".
NoOp == [kind |-> "none", inputs |-> <<>>, order |-> <<>>, axis |-> 0, keepDim |-> FALSE]

OpRec(kind, inputs) == [NoOp EXCEPT !.kind = kind, !.inputs = inputs]

\* const value = ...; body: binds a computed value once for the code that follows.
With(value, Body(_)) == Body(value)

Ret(w, id) == [w |-> w, err |-> "none", id |-> id]
Throw(w, e) == [w |-> w, err |-> e, id |-> 0]

shapeOf(w, t) == w.tensors[t].view.shape
ndim(w, t) == Len(shapeOf(w, t))
Truthy(requiresGrad) == requiresGrad = "true"

\* new Float32Array(...)
NewBuffer(w, contents) == [w EXCEPT !.buffers = Append(@, contents)]

\* new Tensor(data, view, requiresGrad, op)
NewTensor(w, data, v, requiresGrad, op) ==
  Ret([w EXCEPT !.tensors = Append(@, [data |-> data, view |-> v, grad |-> 0,
                                         op |-> op, requiresGrad |-> requiresGrad])],
      Len(w.tensors) + 1)

\* Tensor.from(ndArray, requiresGrad): ndArray given by its shape and flat values.
Tensor_from(w, shape, values, requiresGrad) ==
  NewTensor(NewBuffer(w, values), Len(w.buffers) + 1, View(shape), requiresGrad, NoOp)

\* Tensor.full(shape, fillValue); Tensor.zeros and Tensor.ones are full with 0 and 1.
Tensor_full(w, shape, fillValue) ==
  NewTensor(NewBuffer(w, [j \in 1..prod(shape) |-> fillValue]), Len(w.buffers) + 1,
            View(shape), "undefined", NoOp)

Tensor_zeros(w, shape) == Tensor_full(w, shape, 0)

onesLike(w, this) == Tensor_full(w, shapeOf(w, this), 1)

zerosLike(w, this) == Tensor_zeros(w, shapeOf(w, this))

\* Tensor.get(indices): [err, value]
get(w, this, indices) ==
  IF Len(indices) # ndim(w, this) THEN [err |-> "Tensor.get", value |-> 0]
  ELSE [err |-> "none",
        value |-> w.buffers[w.tensors[this].data][offset(w.tensors[this].view, indices) + 1]]

\* Tensor.set(indices, value), for a full-rank index
set(w, this, indices, value) ==
  [w EXCEPT !.buffers[w.tensors[this].data][offset(w.tensors[this].view, indices) + 1] = value]

\* Tensor.set(indices, value) as the caller sees it: result [w, err].  A write
\* past the end of the Float32Array is ignored.
Tensor_set(w, this, indices, value) ==
  IF Len(indices) # ndim(w, this) THEN [w |-> w, err |-> "Tensor.set"]
  ELSE IF offset(w.tensors[this].view, indices) + 1
            \in 1..Len(w.buffers[w.tensors[this].data])
       THEN [w |-> set(w, this, indices, value), err |-> "none"]
       ELSE [w |-> w, err |-> "none"]

\* The tensor a movement method returns for the view `vr' its View method gave.
Moved(w, this, vr, op) ==
  IF vr.err # "none" THEN Throw(w, vr.err)
  ELSE IF vr.same THEN Ret(w, this)
  ELSE IF Truthy(w.tensors[this].requiresGrad)
       THEN NewTensor(w, w.tensors[this].data, vr.view, "true", op)
       ELSE NewTensor(w, w.tensors[this].data, vr.view, "undefined", NoOp)

permute(w, this, order) ==
  Moved(w, this, View_permute(w.tensors[this].view, order),
        [OpRec("Permute", <<this>>) EXCEPT !.order = order])

reshape(w, this, newShape) ==
  Moved(w, this, View_reshape(w.tensors[this].view, newShape), OpRec("Reshape", <<this>>))

expand(w, this, newShape) ==
  Moved(w, this, View_expand(w.tensors[this].view, newShape), OpRec("Expand", <<this>>))

\* order[dim] = value: an index below 0 sets a property, not an element.
SetAt(order, dim, value) ==
  IF dim \in 0..(Len(order) - 1) THEN [order EXCEPT ![dim + 1] = value] ELSE order

transpose(w, this, dim0In, dim1In) ==
  LET n == ndim(w, this)
      dim0 == IF dim0In < 0 THEN n + dim0In ELSE dim0In
      dim1 == IF dim1In < 0 THEN n + dim1In ELSE dim1In
  IN  IF dim0 > n - 1 THEN Throw(w, "Tensor.transpose:dim0")
      ELSE IF dim1 > n - 1 THEN Throw(w, "Tensor.transpose:dim1")
      ELSE permute(w, this, SetAt(SetAt([i \in 1..n |-> i - 1], dim0, dim1), dim1, dim0))

Max(x, y) == IF x >= y THEN x ELSE y
Min(x, y) == IF x <= y THEN x ELSE y

BroadcastFail(w, e) == [w |-> w, err |-> e, a |-> 0, b |-> 0]

\* a.reshape(aShapeAligned).expand(shape)
reshapeExpand(w, t, aligned, shape) ==
  With(reshape(w, t, aligned), LAMBDA r :
    IF r.err # "none" THEN r ELSE expand(r.w, r.id, shape))

\* Tensor.broadcasted(a, b): [w, err, a, b]
broadcasted(w, a, b) ==
  LET maxDim == Max(ndim(w, a), ndim(w, b))
      aShapeAligned == [i \in 1..(maxDim - ndim(w, a)) |-> 1] \o shapeOf(w, a)
      bShapeAligned == [i \in 1..(maxDim - ndim(w, b)) |-> 1] \o shapeOf(w, b)
      canBroadcast == \A i \in 1..maxDim :
                        \/ aShapeAligned[i] = bShapeAligned[i]
                        \/ aShapeAligned[i] = 1
                        \/ bShapeAligned[i] = 1
      shape == [i \in 1..maxDim |-> Max(aShapeAligned[i], bShapeAligned[i])]
  IN  IF ~canBroadcast THEN BroadcastFail(w, "Tensor.broadcasted")
      ELSE With(reshapeExpand(w, a, aShapeAligned, shape), LAMBDA ea :
             IF ea.err # "none" THEN BroadcastFail(ea.w, ea.err)
             ELSE With(reshapeExpand(ea.w, b, bShapeAligned, shape), LAMBDA eb :
                    IF eb.err # "none" THEN BroadcastFail(eb.w, eb.err)
                    ELSE [w |-> eb.w, err |-> "none", a |-> ea.id, b |-> eb.id]))

\* The scalar computed by the loop body of mul / add / sub.
\* A faulty combine step: the second operand is dropped.
scalarFirstOnly(kind, x, y) == x

scalar(kind, x, y) ==
  CASE kind = "Mul" -> x * y
    [] kind = "Add" -> x + y
    [] kind = "Sub" -> x - y

\* for (let indices of result.indices()) result.set(indices, a.get(indices) op b.get(indices))
RECURSIVE binaryLoop(_, _, _, _, _, _, _)
binaryLoop(w, result, a, b, kind, idxs, i) ==
  IF i > Len(idxs) THEN w
  ELSE With(set(w, result, idxs[i],
                scalar(kind, get(w, a, idxs[i]).value, get(w, b, idxs[i]).value)),
            LAMBDA w1 : binaryLoop(w1, result, a, b, kind, idxs, i + 1))

\* if (a.requiresGrad || b.requiresGrad) { result.op = ...; result.requiresGrad = true }
\* A faulty recording step: the Op is attached whatever the operands are.
RecordedAlways(w, result, tracked, op) ==
  Ret([w EXCEPT !.tensors[result].op = op, !.tensors[result].requiresGrad = "true"],
      result)

Recorded(w, result, tracked, op) ==
  IF tracked
  THEN Ret([w EXCEPT !.tensors[result].op = op, !.tensors[result].requiresGrad = "true"],
           result)
  ELSE Ret(w, result)

\* The common body of Tensor.mul, Tensor.add and Tensor.sub on a Tensor operand.
binary(w, this, tensor, kind) ==
  With(broadcasted(w, this, tensor), LAMBDA bc :
    IF bc.err # "none" THEN Throw(bc.w, bc.err)
    ELSE With(zerosLike(bc.w, bc.a), LAMBDA z :
           With(binaryLoop(z.w, z.id, bc.a, bc.b, kind,
                           View_indices(z.w.tensors[z.id].view), 1), LAMBDA w1 :
             Recorded(w1, z.id,
                      Truthy(w1.tensors[bc.a].requiresGrad)
                        \/ Truthy(w1.tensors[bc.b].requiresGrad),
                      OpRec(kind, <<bc.a, bc.b>>)))))

mul(w, this, tensor) == binary(w, this, tensor, "Mul")

\* Tensor.mul(value) for a number: const tensor = Tensor.from([value])
mulNumber(w, this, value) ==
  With(Tensor_from(w, <<1>>, <<value>>, "undefined"), LAMBDA t : mul(t.w, this, t.id))

add(w, this, tensor) == binary(w, this, tensor, "Add")

sub(w, this, tensor) == binary(w, this, tensor, "Sub")

\* for (let i = 0; i < sumDimSize; i++) value += this.get([...slice(0, axis), i, ...slice(axis + 1)])
RECURSIVE sumInner(_, _, _, _, _, _)
sumInner(w, this, indices, axis, i, sumDimSize) ==
  IF i >= sumDimSize THEN [err |-> "none", value |-> 0]
  ELSE With(get(w, this, slice(indices, 0, axis) \o <<i>>
                           \o slice(indices, axis + 1, Len(indices))), LAMBDA g :
         IF g.err # "none" THEN g
         ELSE With(sumInner(w, this, indices, axis, i + 1, sumDimSize), LAMBDA rest :
                IF rest.err # "none" THEN rest
                ELSE [err |-> "none", value |-> g.value + rest.value]))

\* for (let indices of result.indices()) { ...; result.set(indices, value) }: [w, err]
RECURSIVE sumLoop(_, _, _, _, _, _, _)
sumLoop(w, result, this, axis, sumDimSize, idxs, i) ==
  IF i > Len(idxs) THEN [w |-> w, err |-> "none"]
  ELSE With(sumInner(w, this, idxs[i], axis, 0, sumDimSize), LAMBDA v :
         IF v.err # "none" THEN [w |-> w, err |-> v.err]
         ELSE With(set(w, result, idxs[i], v.value), LAMBDA w1 :
                sumLoop(w1, result, this, axis, sumDimSize, idxs, i + 1)))

\* Tensor.sum(axis, keepDim)
sum(w, this, axisIn, keepDim) ==
  LET n == ndim(w, this)
      axis == IF axisIn < 0 THEN n + axisIn ELSE axisIn
      \* shape[axis] is undefined for a negative axis, and i < undefined is false
      sumDimSize == IF axis \in 0..(n - 1) THEN shapeOf(w, this)[axis + 1] ELSE 0
      shape == IF keepDim THEN splice(shapeOf(w, this), axis, 1, <<1>>)
               ELSE splice(shapeOf(w, this), axis, 1, <<>>)
  IN  IF axis > n - 1 THEN Throw(w, "Tensor.sum:range")
      ELSE With(Tensor_zeros(w, shape), LAMBDA z :
             With(sumLoop(z.w, z.id, this, axis, sumDimSize,
                          View_indices(z.w.tensors[z.id].view), 1), LAMBDA l :
               IF l.err # "none" THEN Throw(l.w, l.err)
               ELSE Recorded(l.w, z.id, Truthy(l.w.tensors[this].requiresGrad),
                             [OpRec("Sum", <<this>>) EXCEPT !.axis = axis,
                                                            !.keepDim = keepDim])))

\* Array.prototype.at(index)
at(s, index) ==
  LET k == IF index < 0 THEN Len(s) + index ELSE index
  IN  IF k \in 0..(Len(s) - 1) THEN s[k + 1] ELSE Undefined

\* Tensor.dot(tensor)
dot(w, this, tensor) ==
  LET aAxis == -1
      bAxis == 0 - Min(ndim(w, tensor), 2)
      aShape == shapeOf(w, this)
      bShape == shapeOf(w, tensor)
      filler == IF ndim(w, this) < 2 \/ ndim(w, tensor) < 2 THEN <<>> ELSE <<1>>
  IN  IF at(aShape, aAxis) # at(bShape, bAxis) THEN Throw(w, "Tensor.dot")
      ELSE With(reshape(w, this, slice(aShape, 0, aAxis) \o filler
                                   \o slice(aShape, aAxis, Len(aShape))), LAMBDA a :
             IF a.err # "none" THEN a
             ELSE With(reshape(a.w, tensor, slice(bShape, 0, bAxis) \o filler
                                              \o slice(bShape, bAxis, Len(bShape))),
                       LAMBDA br :
                    IF br.err # "none" THEN br
                    ELSE With(transpose(br.w, br.id, -1, bAxis), LAMBDA b :
                           IF b.err # "none" THEN b
                           ELSE With(mul(b.w, a.id, b.id), LAMBDA m :
                                  IF m.err # "none" THEN m
                                  ELSE sum(m.w, m.id, -1, FALSE)))))

\* Tensor.neg()
RECURSIVE negLoop(_, _, _, _, _)
negLoop(w, result, this, idxs, i) ==
  IF i > Len(idxs) THEN w
  ELSE With(set(w, result, idxs[i], 0 - get(w, this, idxs[i]).value), LAMBDA w1 :
         negLoop(w1, result, this, idxs, i + 1))

neg(w, this) ==
  With(zerosLike(w, this), LAMBDA z :
    With(negLoop(z.w, z.id, this, View_indices(z.w.tensors[z.id].view), 1), LAMBDA w1 :
      Recorded(w1, z.id, Truthy(w1.tensors[this].requiresGrad), OpRec("Neg", <<this>>))))

\* Tensor.detach()
detach(w, this) ==
  NewTensor(w, w.tensors[this].data, w.tensors[this].view, "false", NoOp)

-----------------------------------------------------------------------------
(* ops.ts: Op.backward of each Op class; results are [w, err, grads] *)

Grads(w, grads) == [w |-> w, err |-> "none", grads |-> grads]
NoGrads(w, e) == [w |-> w, err |-> e, grads |-> <<>>]
One(r) == IF r.err # "none" THEN NoGrads(r.w, r.err) ELSE Grads(r.w, <<r.id>>)

Add_backward(w, op, resultGrad) == Grads(w, <<resultGrad, resultGrad>>)

Sub_backward(w, op, resultGrad) ==
  With(neg(w, resultGrad), LAMBDA n : Grads(n.w, <<resultGrad, n.id>>))

\* t.detach().mul(resultGrad)
detachMul(w, t, resultGrad) ==
  With(detach(w, t), LAMBDA d : mul(d.w, d.id, resultGrad))

\* A faulty Mul.backward: each input is given itself times the gradient.
Mul_backwardOwnOperand(w, op, resultGrad) ==
  With(detachMul(w, op.inputs[1], resultGrad), LAMBDA gx :
    IF gx.err # "none" THEN NoGrads(gx.w, gx.err)
    ELSE With(detachMul(gx.w, op.inputs[2], resultGrad), LAMBDA gy :
           IF gy.err # "none" THEN NoGrads(gy.w, gy.err)
           ELSE Grads(gy.w, <<gx.id, gy.id>>)))

Mul_backward(w, op, resultGrad) ==
  With(detachMul(w, op.inputs[2], resultGrad), LAMBDA gx :
    IF gx.err # "none" THEN NoGrads(gx.w, gx.err)
    ELSE With(detachMul(gx.w, op.inputs[1], resultGrad), LAMBDA gy :
           IF gy.err # "none" THEN NoGrads(gy.w, gy.err)
           ELSE Grads(gy.w, <<gx.id, gy.id>>)))

Neg_backward(w, op, resultGrad) ==
  With(Tensor_full(w, shapeOf(w, resultGrad), -1), LAMBDA f :
    With(mul(f.w, f.id, resultGrad), LAMBDA r : One(r)))

Reshape_backward(w, op, resultGrad) ==
  With(reshape(w, resultGrad, shapeOf(w, op.inputs[1])), LAMBDA r : One(r))

Permute_backward(w, op, resultGrad) ==
  With(permute(w, resultGrad, argsort(op.order)), LAMBDA r : One(r))

\* A faulty Expand.backward: the gradient is passed on without being summed.
Expand_backwardUnsummed(w, op, resultGrad) == Grads(w, <<resultGrad>>)

Expand_backward(w, op, resultGrad) ==
  LET xShape == shapeOf(w, op.inputs[1])
      gShape == shapeOf(w, resultGrad)
      \* s === 1 && resultGrad.shape[i] !== 1 (undefined !== 1 past the end)
      expanding == {i \in 1..Len(xShape) :
                      xShape[i] = 1 /\ (i > Len(gShape) \/ gShape[i] # 1)}
      countOfExpandingDims == Cardinality(expanding)
      \* findIndex: 0-based, -1 when no axis matches
      sumAxis == IF expanding = {} THEN -1
                 ELSE (CHOOSE i \in expanding : \A j \in expanding : i <= j) - 1
  IN  IF countOfExpandingDims > 1 THEN NoGrads(w, "Expand.backward")
      ELSE With(sum(w, resultGrad, sumAxis, TRUE), LAMBDA r : One(r))

Sum_backward(w, op, resultGrad) ==
  LET gShape == shapeOf(w, resultGrad)
      shapeToExpandFrom == IF ~op.keepDim THEN splice(gShape, op.axis, 0, <<1>>) ELSE gShape
  IN  With(reshapeExpand(w, resultGrad, shapeToExpandFrom, shapeOf(w, op.inputs[1])),
           LAMBDA r : One(r))

\* node.op.backward(node.grad!)
Op_backward(w, op, resultGrad) ==
  CASE op.kind = "Add" -> Add_backward(w, op, resultGrad)
    [] op.kind = "Sub" -> Sub_backward(w, op, resultGrad)
    [] op.kind = "Mul" -> Mul_backward(w, op, resultGrad)
    [] op.kind = "Neg" -> Neg_backward(w, op, resultGrad)
    [] op.kind = "Reshape" -> Reshape_backward(w, op, resultGrad)
    [] op.kind = "Permute" -> Permute_backward(w, op, resultGrad)
    [] op.kind = "Expand" -> Expand_backward(w, op, resultGrad)
    [] op.kind = "Sum" -> Sum_backward(w, op, resultGrad)

-----------------------------------------------------------------------------
(* tensor.ts: toposort and backward *)

RECURSIVE visit(_, _, _)
RECURSIVE visitInputs(_, _, _, _)

\* A faulty visit: the node is not marked as visited.
visitUnmarked(w, node, st) ==
  With(IF w.tensors[node].op.kind # "none"
       THEN visitInputs(w, w.tensors[node].op.inputs, 1, st)
       ELSE st,
       LAMBDA after : [after EXCEPT !.sorted = Append(@, node)])

\* visit(node, visited, sorted), with st = [visited, sorted]
visit(w, node, st) ==
  With([st EXCEPT !.visited = @ \cup {node}], LAMBDA entered :
    With(IF w.tensors[node].op.kind # "none"
         THEN visitInputs(w, w.tensors[node].op.inputs, 1, entered)
         ELSE entered,
         LAMBDA after : [after EXCEPT !.sorted = Append(@, node)]))

\* A faulty input loop: an input is visited whether or not it has been before.
RECURSIVE visitInputsAll(_, _, _, _)
visitInputsAll(w, inputs, i, st) ==
  IF i > Len(inputs) THEN st
  ELSE With(visit(w, inputs[i], st),
            LAMBDA st1 : visitInputsAll(w, inputs, i + 1, st1))

\* node.op.inputs.forEach((input) => { if (!visited.has(input)) visit(...) })
visitInputs(w, inputs, i, st) ==
  IF i > Len(inputs) THEN st
  ELSE With(IF inputs[i] \notin st.visited THEN visit(w, inputs[i], st) ELSE st,
            LAMBDA st1 : visitInputs(w, inputs, i + 1, st1))

toposort(w, this) == visit(w, this, [visited |-> {}, sorted |-> <<>>]).sorted

Reverse(s) == [i \in 1..Len(s) |-> s[Len(s) + 1 - i]]

\* A faulty accumulation: the gradient is replaced by the new one.
accumulateOverwrite(w, t, g) ==
  [w |-> [w EXCEPT !.tensors[t].grad = g], err |-> "none"]

\* t.grad = t.grad ? t.grad.add(g) : g, as [w, err]
accumulate(w, t, g) ==
  IF w.tensors[t].grad # 0
  THEN With(add(w, w.tensors[t].grad, g), LAMBDA r :
         IF r.err # "none" THEN [w |-> r.w, err |-> r.err]
         ELSE [w |-> [r.w EXCEPT !.tensors[t].grad = r.id], err |-> "none"])
  ELSE [w |-> [w EXCEPT !.tensors[t].grad = g], err |-> "none"]

\* A faulty input loop: every input is given its gradient, tracked or not.
RECURSIVE inputsLoopAll(_, _, _, _)
inputsLoopAll(w, inputs, inputGrads, i) ==
  IF i > Len(inputs) THEN [w |-> w, err |-> "none"]
  ELSE With(accumulate(w, inputs[i], inputGrads[i]), LAMBDA r :
         IF r.err # "none" THEN r
         ELSE inputsLoopAll(r.w, inputs, inputGrads, i + 1))

\* node.op.inputs.forEach((input, i) => { if (!input.requiresGrad) return; ... })
RECURSIVE inputsLoop(_, _, _, _)
inputsLoop(w, inputs, inputGrads, i) ==
  IF i > Len(inputs) THEN [w |-> w, err |-> "none"]
  ELSE IF ~Truthy(w.tensors[inputs[i]].requiresGrad)
       THEN inputsLoop(w, inputs, inputGrads, i + 1)
       ELSE With(accumulate(w, inputs[i], inputGrads[i]), LAMBDA r :
              IF r.err # "none" THEN r
              ELSE inputsLoop(r.w, inputs, inputGrads, i + 1))

\* One invocation of node.op.backward(node.grad): the node and the gradient
\* tensor it was handed.
Invoked(node, grad) == [node |-> node, grad |-> grad]

\* r, with one more invocation in front of those it lists
Logged(entry, r) == [w |-> r.w, err |-> r.err, log |-> <<entry>> \o r.log]

\* sortedGraph.reverse().forEach((node) => { ... }); log lists the
\* op.backward invocations in the order they were made
RECURSIVE nodesLoop(_, _, _)
nodesLoop(w, nodes, k) ==
  IF k > Len(nodes) THEN [w |-> w, err |-> "none", log |-> <<>>]
  ELSE With(w.tensors[nodes[k]], LAMBDA node :
         IF node.op.kind = "none" THEN nodesLoop(w, nodes, k + 1)
         ELSE IF node.grad = 0 THEN [w |-> w, err |-> "TypeError", log |-> <<>>]
         ELSE With(Op_backward(w, node.op, node.grad), LAMBDA b :
                IF b.err # "none"
                THEN [w |-> b.w, err |-> b.err,
                      log |-> <<Invoked(nodes[k], node.grad)>>]
                ELSE With(inputsLoop(b.w, node.op.inputs, b.grads, 1), LAMBDA r :
                       IF r.err # "none"
                       THEN [w |-> r.w, err |-> r.err,
                             log |-> <<Invoked(nodes[k], node.grad)>>]
                       ELSE Logged(Invoked(nodes[k], node.grad),
                                   nodesLoop(r.w, nodes, k + 1)))))

\* Tensor.backward(grad?): grad a tensor id, or 0 when omitted; result
\* [w, err, log]
backward(w, this, gradIn) ==
  IF ~Truthy(w.tensors[this].requiresGrad)
  THEN [w |-> w, err |-> "Tensor.backward:requiresGrad", log |-> <<>>]
  ELSE With(IF gradIn = 0 THEN onesLike(w, this) ELSE Ret(w, gradIn), LAMBDA grad :
         IF ~equal(shapeOf(grad.w, grad.id), shapeOf(grad.w, this))
         THEN [w |-> grad.w, err |-> "Tensor.backward:shape", log |-> <<>>]
         ELSE With(accumulate(grad.w, this, grad.id), LAMBDA seeded :
                IF seeded.err # "none"
                THEN [w |-> seeded.w, err |-> seeded.err, log |-> <<>>]
                ELSE nodesLoop(seeded.w, Reverse(toposort(seeded.w, this)), 1)))

-----------------------------------------------------------------------------
(* Input sets *)

SeqsUpTo(S, n) == UNION {[1..k -> S] : k \in 0..n}

Shapes == {s \in SeqsUpTo(1..MaxDim, MaxRank) : prod(s) <= MaxNumel}

Perms(n) == {p \in [1..n -> 0..(n - 1)] : \A i, j \in 1..n : p[i] = p[j] => i = j}

Orders == UNION {Perms(n) : n \in 0..MaxRank}

Identity(n) == [i \in 1..n |-> i - 1]

Coords(shape) == {c \in [1..Len(shape) -> 0..(MaxDim + 1)] :
                    \A i \in 1..Len(shape) : c[i] < shape[i]}

NoVCall == [op |-> "none", arg |-> <<>>, err |-> "none", same |-> FALSE, recv |-> View(<<>>)]
NoCall == [op |-> "none", this |-> 0, args |-> <<>>, err |-> "none", res |-> 0, pre |-> <<>>,
           prebuf |-> <<>>]

-----------------------------------------------------------------------------
(* SpecView: one View, transformed by any sequence of View method calls.   *)

VCallRec(op, arg, r) ==
  [op |-> op, arg |-> arg, err |-> r.err, same |-> r.same, recv |-> view]

VPermute ==
  \E order \in Orders :
    LET r == View_permute(view, order)
    IN  /\ view' = r.view
        /\ vcall' = VCallRec("permute", order, r)
        /\ UNCHANGED <<state, drawn, tensors, buffers, held, call, nback>>

VReshape ==
  \E newShape \in Shapes :
    LET r == View_reshape(view, newShape)
    IN  /\ view' = r.view
        /\ vcall' = VCallRec("reshape", newShape, r)
        /\ UNCHANGED <<state, drawn, tensors, buffers, held, call, nback>>

VExpand ==
  \E newShape \in Shapes :
    LET r == View_expand(view, newShape)
    IN  /\ view' = r.view
        /\ vcall' = VCallRec("expand", newShape, r)
        /\ UNCHANGED <<state, drawn, tensors, buffers, held, call, nback>>

InitView ==
  /\ view \in {View(s) : s \in Shapes}
  /\ vcall = NoVCall
  /\ tensors = <<>>
  /\ buffers = <<>>
  /\ held = {}
  /\ call = NoCall
  /\ nback = 0
  /\ state = 0
  /\ drawn = <<>>

NextView == VPermute \/ VReshape \/ VExpand

\* The orders a caller may pass to permute: any indices, of any length.
AnyOrders == SeqsUpTo((0 - 1)..MaxRank, MaxRank)

VPermuteAny ==
  \E order \in AnyOrders :
    LET r == View_permute(view, order)
    IN  /\ view' = r.view
        /\ vcall' = VCallRec("permute", order, r)
        /\ UNCHANGED <<state, drawn, tensors, buffers, held, call, nback>>

\* SpecPermuteArgs: one permute of a View with an arbitrary order.
NextPermuteArgs == vcall.op = "none" /\ VPermuteAny

SpecPermuteArgs == InitView /\ [][NextPermuteArgs]_vars

SpecView == InitView /\ [][NextView]_vars


-----------------------------------------------------------------------------
(* Tensor-level specifications: the caller creates leaf tensors with          *)
(* Tensor.from and then calls Tensor methods on the tensors it holds.         *)

World == [tensors |-> tensors, buffers |-> buffers]

LeafShapes == {s \in Shapes : Len(s) >= 1 /\ Len(s) <= MaxLeafRank}

RequiresGradArgs == {"true", "undefined"}

\* The values of the k-th buffer created by from: pairwise distinct, so that a
\* misplaced element shows.
LeafValues(k, shape) == [j \in 1..prod(shape) |-> 10 * k + j]

EmptyWorld == [tensors |-> <<>>, buffers |-> <<>>]

\* Tensor.from(ndArray, requiresGrad) on the next literal
FromLiteral(w, shape, requiresGrad) ==
  Tensor_from(w, shape, LeafValues(Len(w.buffers) + 1, shape), requiresGrad).w

\* The elements of tensor t in row-major order of its coordinates.
Render(w, t) ==
  LET idxs == View_indices(w.tensors[t].view)
  IN  [k \in 1..Len(idxs) |-> get(w, t, idxs[k]).value]

CallRec(op, this, args, r) ==
  [op |-> op, this |-> this, args |-> args, err |-> r.err,
   res |-> IF r.err = "none" THEN r.id ELSE 0, pre |-> tensors, prebuf |-> buffers]

\* The effect of a tensor-returning call with result r: a thrown call leaves
\* nothing behind that the caller can reach.
Returned(op, this, args, r) ==
  /\ tensors' = IF r.err = "none" THEN r.w.tensors ELSE tensors
  /\ buffers' = IF r.err = "none" THEN r.w.buffers ELSE buffers
  /\ held' = IF r.err = "none" THEN held \cup {r.id} ELSE held
  /\ call' = CallRec(op, this, args, r)
  /\ UNCHANGED <<state, drawn, view, vcall, nback>>

Permute ==
  \E this \in held : \E order \in Perms(ndim(World, this)) :
    Returned("permute", this, <<order>>, permute(World, this, order))

Expand ==
  \E this \in held : \E newShape \in Shapes :
    /\ Len(newShape) = ndim(World, this)
    /\ Returned("expand", this, <<newShape>>, expand(World, this, newShape))

Reshape ==
  \E this \in held : \E newShape \in Shapes :
    Returned("reshape", this, <<newShape>>, reshape(World, this, newShape))

\* this.reshape(newShape).reshape(this.shape)
ReshapeRoundTrip ==
  \E this \in held : \E newShape \in Shapes :
    Returned("reshapeRoundTrip", this, <<newShape>>,
             With(reshape(World, this, newShape), LAMBDA r :
               IF r.err # "none" THEN r ELSE reshape(r.w, r.id, shapeOf(World, this))))

Detach ==
  \E this \in held : Returned("detach", this, <<>>, detach(World, this))

Add ==
  \E this \in held, tensor \in held :
    Returned("add", this, <<tensor>>, add(World, this, tensor))

Mul ==
  \E this \in held, tensor \in held :
    Returned("mul", this, <<tensor>>, mul(World, this, tensor))

Sub ==
  \E this \in held, tensor \in held :
    Returned("sub", this, <<tensor>>, sub(World, this, tensor))

\* The value the caller writes with set: none of the values from or any
\* operation on them produces within the bounds.
SetValues == {0 - 7}

SetIndices == UNION {Coords(sh) : sh \in Shapes}

\* set through the source or through the result of the last call
Set ==
  \E this \in {call.this, call.res} : \E indices \in SetIndices, value \in SetValues :
    LET r == Tensor_set(World, this, indices, value)
    IN  /\ tensors' = r.w.tensors
        /\ buffers' = r.w.buffers
        /\ call' = [op |-> "set", this |-> this, args |-> <<indices, value>>,
                    err |-> r.err, res |-> 0, pre |-> tensors, prebuf |-> buffers]
        /\ UNCHANGED <<state, drawn, view, vcall, held, nback>>

ScalarValues == {2}

MulNumber ==
  \E this \in held : \E value \in ScalarValues :
    Returned("mulNumber", this, <<value>>, mulNumber(World, this, value))

Neg ==
  \E this \in held : Returned("neg", this, <<>>, neg(World, this))

Dot ==
  \E this \in held, tensor \in held :
    Returned("dot", this, <<tensor>>, dot(World, this, tensor))

SumAxes == (0 - MaxLeafRank - 2)..(MaxLeafRank + 3)

Sum ==
  \E this \in held : \E axis \in SumAxes, keepDim \in BOOLEAN :
    Returned("sum", this, <<axis, keepDim>>, sum(World, this, axis, keepDim))

\* backward returns nothing; what it did to the heap stays also when it throws.
Backward ==
  /\ nback < MaxBackward
  /\ \E this \in held : \E grad \in {0} \cup held :
       LET r == backward(World, this, grad)
       IN  /\ tensors' = r.w.tensors
           /\ buffers' = r.w.buffers
           /\ call' = [op |-> "backward", this |-> this, args |-> <<grad>>,
                       err |-> r.err, res |-> 0, pre |-> tensors,
                       prebuf |-> buffers, log |-> r.log]
           /\ nback' = nback + 1
           /\ UNCHANGED <<state, drawn, view, vcall, held>>

\* t.backward(), the seed left to default
BackwardDefault ==
  /\ nback < MaxBackward
  /\ \E this \in held :
       LET r == backward(World, this, 0)
       IN  /\ tensors' = r.w.tensors
           /\ buffers' = r.w.buffers
           /\ call' = [op |-> "backward", this |-> this, args |-> <<0>>,
                       err |-> r.err, res |-> 0, pre |-> tensors,
                       prebuf |-> buffers, log |-> r.log]
           /\ nback' = nback + 1
           /\ UNCHANGED <<state, drawn, view, vcall, held>>

\* The graph collection backward starts with, on its own: sorted is the
\* sequence toposort returns.
Collect ==
  \E this \in held :
    /\ call' = [op |-> "toposort", this |-> this, args |-> <<>>, err |-> "none",
                res |-> 0, pre |-> tensors, prebuf |-> buffers,
                sorted |-> toposort(World, this)]
    /\ UNCHANGED <<state, drawn, view, vcall, tensors, buffers, held, nback>>

\* The caller has built its operands with Tensor.from.
InitHeap(w) ==
  /\ view = View(<<>>)
  /\ vcall = NoVCall
  /\ tensors = w.tensors
  /\ buffers = w.buffers
  /\ held = 1..Len(w.tensors)
  /\ call = NoCall
  /\ nback = 0
  /\ state = 0
  /\ drawn = <<>>

\* One operand, with or without requiresGrad.
InitOne ==
  \E s \in LeafShapes, rg \in RequiresGradArgs : InitHeap(FromLiteral(EmptyWorld, s, rg))

\* Two operands, each with or without requiresGrad.
InitPair ==
  \E sa \in LeafShapes, sb \in LeafShapes, ra \in RequiresGradArgs, rb \in RequiresGradArgs :
    InitHeap(FromLiteral(FromLiteral(EmptyWorld, sa, ra), sb, rb))

\* Two operands built by Tensor.from(ndArray).
InitPlainPair ==
  \E sa \in LeafShapes, sb \in LeafShapes :
    InitHeap(FromLiteral(FromLiteral(EmptyWorld, sa, "undefined"), sb, "undefined"))

NoCallYet == call.op = "none"

\* SpecDot: one dot of the two operands, in either order or with itself.
NextDot == NoCallYet /\ Dot

SpecDot == InitPair /\ [][NextDot]_vars

\* SpecBroadcast: optionally one movement of an operand, then one add or mul.
NextBroadcast ==
  \/ NoCallYet /\ Permute
  \/ NoCallYet /\ Expand
  \/ call.op \in {"none", "permute", "expand"} /\ Add
  \/ call.op \in {"none", "permute", "expand"} /\ Mul

SpecBroadcast == InitPlainPair /\ [][NextBroadcast]_vars

\* SpecSum: one sum of the operand, then backward calls.
NextSum ==
  \/ NoCallYet /\ Sum
  \/ Backward

SpecSum == InitOne /\ [][NextSum]_vars

\* SpecGrad: optionally one add or mul of the operands, then backward calls.
NextGrad ==
  \/ NoCallYet /\ Add
  \/ NoCallYet /\ Mul
  \/ Backward

SpecGrad == InitPair /\ [][NextGrad]_vars

\* SpecViewStrided: as SpecView, from a View built by new View(shape, strides)
\* with explicitly supplied strides, one per axis.
InitViewStrided ==
  /\ \E s \in Shapes : \E st \in [1..Len(s) -> 0..MaxDim] : view = ViewWith(s, st)
  /\ vcall = NoVCall
  /\ tensors = <<>>
  /\ buffers = <<>>
  /\ held = {}
  /\ call = NoCall
  /\ nback = 0
  /\ state = 0
  /\ drawn = <<>>

SpecViewStrided == InitViewStrided /\ [][NextView]_vars

\* SpecOps: one elementwise, reduction or movement operation on the operands.
NextOps ==
  \/ NoCallYet /\ Permute
  \/ NoCallYet /\ Reshape
  \/ NoCallYet /\ Expand
  \/ NoCallYet /\ Add
  \/ NoCallYet /\ Sub
  \/ NoCallYet /\ Mul
  \/ NoCallYet /\ Sum
  \/ NoCallYet /\ Neg

SpecOps == InitPair /\ [][NextOps]_vars

\* SpecChain: one sum of the operand, one multiplication by a number, then
\* backward calls.
NextChain ==
  \/ NoCallYet /\ Sum
  \/ call.op = "sum" /\ MulNumber
  \/ Backward

SpecChain == InitOne /\ [][NextChain]_vars

MovementCalls == {"permute", "reshape", "expand", "detach"}

\* SpecAlias: one operation on the operands; after a movement or detach, one set
\* through the source or through the tensor returned.
NextAlias ==
  \/ NoCallYet /\ Permute
  \/ NoCallYet /\ Reshape
  \/ NoCallYet /\ Expand
  \/ NoCallYet /\ Detach
  \/ NoCallYet /\ Add
  \/ NoCallYet /\ Sub
  \/ NoCallYet /\ Mul
  \/ NoCallYet /\ Sum
  \/ NoCallYet /\ Neg
  \/ (call.op \in MovementCalls /\ call.err = "none") /\ Set

SpecAlias == InitPair /\ [][NextAlias]_vars

\* SpecReshape: one reshape of the operand, or one reshape there and back.
NextReshape ==
  \/ NoCallYet /\ Reshape
  \/ NoCallYet /\ ReshapeRoundTrip

SpecReshape == InitOne /\ [][NextReshape]_vars

\* SpecMove: optionally one movement or detach of the operand, then backward calls.
NextMove ==
  \/ NoCallYet /\ Permute
  \/ NoCallYet /\ Reshape
  \/ NoCallYet /\ Expand
  \/ NoCallYet /\ Detach
  \/ Backward

SpecMove == InitOne /\ [][NextMove]_vars

-----------------------------------------------------------------------------
(* Claims about View (checked under SpecView) *)

\* The coordinate of the receiver that coordinate c of a permuted view names:
\* axis i of the result is axis order[i] of the receiver.
Unpermuted(c, order) ==
  [a \in 1..Len(c) |-> c[CHOOSE i \in 1..Len(order) : order[i] = a - 1]]

\* C1: for every permutation `order` of [0..ndim), permute returns the receiver
\* itself exactly when order is the identity; otherwise it returns a new View with
\* shape[i] = shape[order[i]], strides[i] = strides[order[i]], whose coordinate c
\* reads the receiver's element at the un-permuted coordinate.
C1_PermuteSameIffIdentity ==
  (vcall.op = "permute" /\ vcall.arg \in Perms(Len(vcall.recv.shape))) =>
    /\ vcall.err = "none"
    /\ vcall.same <=> (vcall.arg = Identity(Len(vcall.arg)))
    /\ ~vcall.same =>
         /\ \A i \in 1..Len(vcall.arg) :
              /\ view.shape[i] = vcall.recv.shape[vcall.arg[i] + 1]
              /\ view.strides[i] = vcall.recv.strides[vcall.arg[i] + 1]
         /\ \A c \in Coords(view.shape) :
              offset(view, c) = offset(vcall.recv, Unpermuted(c, vcall.arg))

\* C5: reshape fails with the size-mismatch error for every newShape whose element
\* product differs from the receiver's; with equal products on a contiguous view
\* the result has shape exactly newShape and default row-major strides.
C5_ReshapeSizeChecked ==
  vcall.op = "reshape" =>
    /\ prod(vcall.arg) # prod(vcall.recv.shape) => vcall.err = "View.reshape:size"
    /\ (prod(vcall.arg) = prod(vcall.recv.shape) /\ vcall.recv.contiguous) =>
         /\ vcall.err = "none"
         /\ view.shape = vcall.arg
         /\ view.strides = stridesForShape(vcall.arg)

\* C6: reshaping a non-contiguous view to a shape other than its own never returns
\* a view: it fails, and when the element counts agree (the size check passes)
\* the failure is the unsupported-operation error.
C6_NonContiguousReshapeFails ==
  (vcall.op = "reshape" /\ ~vcall.recv.contiguous /\ vcall.arg # vcall.recv.shape) =>
    /\ vcall.err # "none"
    /\ prod(vcall.arg) = prod(vcall.recv.shape) => vcall.err = "View.reshape:noncontiguous"

ExpandAllowed(shape, newShape) ==
  /\ Len(shape) = Len(newShape)
  /\ \A i \in 1..Len(shape) : newShape[i] = shape[i] \/ shape[i] = 1

\* C7: expand succeeds exactly when newShape has the receiver's rank and on every
\* axis equals the receiver's size or the receiver's size is 1; the result then has
\* shape newShape and the receiver's strides, and coordinate c reads the receiver's
\* element at c with the expanded axes set to 0.  Every other newShape fails.
C7_ExpandOnlyWhenAllowed ==
  vcall.op = "expand" =>
    /\ (vcall.err = "none") <=> ExpandAllowed(vcall.recv.shape, vcall.arg)
    /\ vcall.err = "none" =>
         /\ view.shape = vcall.arg
         /\ view.strides = vcall.recv.strides
         /\ \A c \in Coords(view.shape) :
              offset(view, c) =
                offset(vcall.recv,
                       [i \in 1..Len(c) |-> IF vcall.recv.shape[i] = 1 THEN 0 ELSE c[i]])

-----------------------------------------------------------------------------
(* Claims about Tensor.dot (checked under SpecDot) *)

RECURSIVE SeqSum(_)
SeqSum(s) == IF s = <<>> THEN 0 ELSE Head(s) + SeqSum(Tail(s))

\* Element c of tensor t in heap w.
Elem(w, t, c) == get(w, t, c).value

\* C2: for a of shape (m,k) and b of shape (k,n), k == n included, a.dot(b) has
\* shape (m,n) and element [i][j] equal to the sum over t of a[i][t]*b[t][j]; a
\* rank-1 a of shape (k) with b of shape (k,n) gives shape (n) with element j equal
\* to the sum over t of a[t]*b[t][j].
C2_DotIsMatrixProduct ==
  call.op = "dot" =>
    LET a == call.this
        b == call.args[1]
        sa == shapeOf(World, a)
        sb == shapeOf(World, b)
        k == sb[1]
    IN  /\ (Len(sa) = 2 /\ Len(sb) = 2 /\ sa[2] = sb[1]) =>
             /\ call.err = "none"
             /\ shapeOf(World, call.res) = <<sa[1], sb[2]>>
             /\ \A i \in 0..(sa[1] - 1), j \in 0..(sb[2] - 1) :
                  Elem(World, call.res, <<i, j>>) =
                    SeqSum([t \in 1..k |->
                             Elem(World, a, <<i, t - 1>>) * Elem(World, b, <<t - 1, j>>)])
        /\ (Len(sa) = 1 /\ Len(sb) = 2 /\ sa[1] = sb[1]) =>
             /\ call.err = "none"
             /\ shapeOf(World, call.res) = <<sb[2]>>
             /\ \A j \in 0..(sb[2] - 1) :
                  Elem(World, call.res, <<j>>) =
                    SeqSum([t \in 1..k |->
                             Elem(World, a, <<t - 1>>) * Elem(World, b, <<t - 1, j>>)])

-----------------------------------------------------------------------------
(* Claims about Tensor.add and Tensor.mul (checked under SpecBroadcast) *)

\* A shape left-padded with size-1 axes to rank n.
Aligned(shape, n) == [i \in 1..(n - Len(shape)) |-> 1] \o shape

Compatible(sa, sb) ==
  LET n == Max(Len(sa), Len(sb))
  IN  \A i \in 1..n :
        \/ Aligned(sa, n)[i] = Aligned(sb, n)[i]
        \/ Aligned(sa, n)[i] = 1
        \/ Aligned(sb, n)[i] = 1

CommonShape(sa, sb) ==
  LET n == Max(Len(sa), Len(sb))
  IN  [i \in 1..n |-> Max(Aligned(sa, n)[i], Aligned(sb, n)[i])]

\* Element of t that coordinate c of the common shape names: the leading axes
\* t lacks are dropped and t's size-1 axes are held at index 0.
BroadcastElem(w, t, c) ==
  LET st == shapeOf(w, t)
      d == Len(c) - Len(st)
  IN  Elem(w, t, [i \in 1..Len(st) |-> IF st[i] = 1 THEN 0 ELSE c[i + d]])

CombineKind == IF call.op = "add" THEN "Add" ELSE "Mul"

\* An operand of lower rank than the other one that is not contiguous.
LowerRankNonContiguous(w, a, b) ==
  \/ ndim(w, a) < ndim(w, b) /\ ~w.tensors[a].view.contiguous
  \/ ndim(w, b) < ndim(w, a) /\ ~w.tensors[b].view.contiguous

\* The result of the last add or mul has the common shape and holds, at every
\* coordinate, a's element combined with b's; the call with the operands
\* exchanged holds equal data.
BroadcastResult ==
  LET a == call.this
      b == call.args[1]
      common == CommonShape(shapeOf(World, a), shapeOf(World, b))
      swapped == binary(World, b, a, CombineKind)
  IN  /\ call.err = "none"
      /\ shapeOf(World, call.res) = common
      /\ \A c \in Coords(common) :
           Elem(World, call.res, c) =
             IF call.op = "add"
             THEN BroadcastElem(World, a, c) + BroadcastElem(World, b, c)
             ELSE BroadcastElem(World, a, c) * BroadcastElem(World, b, c)
      /\ swapped.err = "none"
      /\ Render(swapped.w, swapped.id) = Render(World, call.res)

-----------------------------------------------------------------------------
(* Claims about Tensor.backward (checked under SpecGrad) *)

WorldAfter == [tensors |-> tensors', buffers |-> buffers']

\* No tensor of the heap carries a gradient.
NoGradsIn(ts) == \A t \in 1..Len(ts) : ts[t].grad = 0

\* C3: calling r.backward(g) twice with the same explicit gradient g, without
\* clearing gradients in between, leaves the gradient of every leaf with
\* requiresGrad reachable from r at exactly twice its value after the first call.
C3_SecondBackwardDoubles ==
  [][(/\ call.op = "backward" /\ call.err = "none" /\ call.args[1] # 0
      /\ NoGradsIn(call.pre)
      /\ nback' = nback + 1
      /\ call'.this = call.this /\ call'.args = call.args)
     => /\ call'.err = "none"
        /\ \A x \in 1..Len(tensors) :
             (tensors[x].op = NoOp /\ Truthy(tensors[x].requiresGrad) /\ tensors[x].grad # 0) =>
               /\ tensors'[x].grad # 0
               /\ Render(WorldAfter, tensors'[x].grad) =
                    [j \in 1..prod(shapeOf(World, tensors[x].grad)) |->
                       2 * Render(World, tensors[x].grad)[j]]]_vars

\* The gradient of every tensor that existed before the last call is what it was.
GradsUnchanged == \A t \in 1..Len(call.pre) : tensors[t].grad = call.pre[t].grad

\* C4: backward(g?) on a root r fails, leaving every gradient unchanged, with the
\* state error if r.requiresGrad is not true and with the shape-mismatch error if
\* a supplied g has not exactly r's shape (same rank, same size on every axis);
\* with g omitted the seed is a ones-filled tensor of r's shape.
C4_BackwardRejectsBadRootOrShape ==
  call.op = "backward" =>
    LET r == call.this
        g == call.args[1]
    IN  /\ ~Truthy(call.pre[r].requiresGrad) =>
             call.err = "Tensor.backward:requiresGrad" /\ GradsUnchanged
        /\ (Truthy(call.pre[r].requiresGrad) /\ g # 0
              /\ call.pre[g].view.shape # call.pre[r].view.shape) =>
             call.err = "Tensor.backward:shape" /\ GradsUnchanged
        /\ (Truthy(call.pre[r].requiresGrad) /\ g = 0 /\ call.pre[r].grad = 0) =>
             /\ tensors[r].grad # 0
             /\ shapeOf(World, tensors[r].grad) = shapeOf(World, r)
             /\ \A c \in Coords(shapeOf(World, r)) : Elem(World, tensors[r].grad, c) = 1

-----------------------------------------------------------------------------
(* Claims about Tensor.sum (checked under SpecSum) *)

\* C9: sum(axis, keepDim) fails with the range error for every axis outside
\* [-ndim, ndim-1], too large or too negative, and returns no tensor for it.
C9_SumAxisOutOfRangeFails ==
  (call.op = "sum" /\ call.args[1] \notin (0 - ndim(World, call.this))..(ndim(World, call.this) - 1)) =>
    call.err = "Tensor.sum:range" /\ call.res = 0

\* The coordinate of x that coordinate c of x.sum(axis, keepDim) and index i on
\* the summed axis name.
SummedCoord(c, axis, keepDim, i) ==
  IF keepDim THEN [c EXCEPT ![axis + 1] = i]
  ELSE SubSeq(c, 1, axis) \o <<i>> \o SubSeq(c, axis + 1, Len(c))

\* C10: for x with requiresGrad and any in-range axis (negative counted from the
\* end), x.sum(axis, keepDim) has x's shape with that axis dropped (keepDim=false)
\* or set to 1 (keepDim=true) and each element is the sum of x over that axis;
\* backward() on the result leaves x.grad with x's shape and every element 1.
C10_SumForwardAndBackward ==
  /\ (/\ call.op = "sum" /\ Truthy(tensors[call.this].requiresGrad)
      /\ call.args[1] \in (0 - ndim(World, call.this))..(ndim(World, call.this) - 1)) =>
       LET x == call.this
           n == ndim(World, x)
           axis == IF call.args[1] < 0 THEN n + call.args[1] ELSE call.args[1]
           keepDim == call.args[2]
           sx == shapeOf(World, x)
           expected == IF keepDim THEN [sx EXCEPT ![axis + 1] = 1]
                       ELSE SubSeq(sx, 1, axis) \o SubSeq(sx, axis + 2, n)
       IN  /\ call.err = "none"
           /\ shapeOf(World, call.res) = expected
           /\ \A c \in Coords(expected) :
                Elem(World, call.res, c) =
                  SeqSum([i \in 1..sx[axis + 1] |->
                           Elem(World, x, SummedCoord(c, axis, keepDim, i - 1))])
  /\ (/\ call.op = "backward" /\ call.args[1] = 0 /\ NoGradsIn(call.pre)
      /\ call.pre[call.this].op.kind = "Sum") =>
       LET x == call.pre[call.this].op.inputs[1]
       IN  /\ call.err = "none"
           /\ tensors[x].grad # 0
           /\ shapeOf(World, tensors[x].grad) = shapeOf(World, x)
           /\ \A c \in Coords(shapeOf(World, x)) : Elem(World, tensors[x].grad, c) = 1

-----------------------------------------------------------------------------
(* Claims about Mul.backward (checked under SpecGrad) *)

WorldBefore == [tensors |-> call.pre, buffers |-> call.prebuf]

\* The last call left data, view, op and requiresGrad of every tensor that
\* existed before it, and the contents of every buffer that existed, as they were.
OperandsUntouched ==
  /\ \A t \in 1..Len(call.pre) :
       /\ tensors[t].data = call.pre[t].data
       /\ tensors[t].view = call.pre[t].view
       /\ tensors[t].op = call.pre[t].op
       /\ tensors[t].requiresGrad = call.pre[t].requiresGrad
  /\ \A d \in 1..Len(call.prebuf) : buffers[d] = call.prebuf[d]

\* Element of the seed gradient at coordinate c: g's element, or 1 when omitted.
SeedElem(c) ==
  IF call.args[1] = 0 THEN 1 ELSE BroadcastElem(WorldBefore, call.args[1], c)

\* The last call was the first backward on the result r of a mul of two distinct
\* operands, with g omitted or of exactly r's shape.
MulBackwardCase ==
  /\ call.op = "backward"
  /\ call.pre[call.this].op.kind = "Mul"
  /\ call.pre[call.this].op.inputs[1] # call.pre[call.this].op.inputs[2]
  /\ NoGradsIn(call.pre)
  /\ call.args[1] # 0 =>
       call.pre[call.args[1]].view.shape = call.pre[call.this].view.shape

\* The gradient of input x of the mul is the other input y times the seed.
MulGradIs(x, y) ==
  /\ tensors[x].grad # 0
  /\ shapeOf(World, tensors[x].grad) = shapeOf(World, call.this)
  /\ \A c \in Coords(shapeOf(World, call.this)) :
       Elem(World, tensors[x].grad, c) = Elem(WorldBefore, y, c) * SeedElem(c)

\* C11: for r = a.mul(b), the first backward on r gives each input with
\* requiresGrad the other input times the seed gradient, elementwise (for
\* same-shape a and b and g omitted: a.grad equals b and b.grad equals a, and the
\* call succeeds); data, op and requiresGrad of the operands are unchanged.
C11_MulBackward ==
  MulBackwardCase =>
    LET x == call.pre[call.this].op.inputs[1]
        y == call.pre[call.this].op.inputs[2]
    IN  /\ OperandsUntouched
        /\ Truthy(tensors[x].requiresGrad) => MulGradIs(x, y)
        /\ Truthy(tensors[y].requiresGrad) => MulGradIs(y, x)
        /\ (tensors[x].op = NoOp /\ tensors[y].op = NoOp) => call.err = "none"

\* backward() ran on a mul of two distinct same-shape leaves that both have
\* requiresGrad, on a shape of more than one element.
C11_MulOfLeavesBackward ==
  /\ MulBackwardCase /\ call.args[1] = 0 /\ call.err = "none"
  /\ tensors[call.this].op.inputs = <<1, 2>>
  /\ Truthy(tensors[1].requiresGrad) /\ Truthy(tensors[2].requiresGrad)
  /\ prod(shapeOf(World, 1)) > 1
  /\ tensors[1].grad # 0 /\ tensors[2].grad # 0

-----------------------------------------------------------------------------
(* Claims about Expand.backward (checked under SpecMove) *)

\* The axes on which x, of shape sx, was expanded to reach shape se.
ExpandedAxes(sx, se) == {i \in 1..Len(sx) : sx[i] = 1 /\ se[i] # 1}

\* The last call was the first backward(), with g omitted, on an expanded tensor.
ExpandBackwardCase ==
  /\ call.op = "backward" /\ call.args[1] = 0
  /\ call.pre[call.this].op.kind = "Expand"
  /\ NoGradsIn(call.pre)

\* C12: for x with requiresGrad expanded along exactly one size-1 axis to size n,
\* backward() from the expanded tensor leaves x.grad with x's shape and every
\* element n; when more than one axis was expanded, the call fails with the
\* Expand.backward unsupported-operation error and x receives no gradient.
C12_ExpandBackward ==
  ExpandBackwardCase =>
    LET x == call.pre[call.this].op.inputs[1]
        sx == shapeOf(World, x)
        se == shapeOf(World, call.this)
        axes == ExpandedAxes(sx, se)
    IN  /\ Cardinality(axes) = 1 =>
             /\ call.err = "none"
             /\ tensors[x].grad # 0
             /\ shapeOf(World, tensors[x].grad) = sx
             /\ \A c \in Coords(sx) :
                  Elem(World, tensors[x].grad, c) = se[CHOOSE i \in axes : TRUE]
        /\ Cardinality(axes) > 1 =>
             call.err = "Expand.backward" /\ tensors[x].grad = 0

\* backward() ran on a tensor expanded along one axis of a source that has
\* another axis of size greater than 1.
C12_OneAxisExpandedBackward ==
  /\ ExpandBackwardCase /\ call.err = "none"
  /\ Cardinality(ExpandedAxes(shapeOf(World, 1), shapeOf(World, call.this))) = 1
  /\ prod(shapeOf(World, 1)) > 1

-----------------------------------------------------------------------------
(* Claims about the View invariant (checked under SpecViewStrided) *)

\* C13: every View built by the constructor, with default or explicitly supplied
\* strides, and every View returned by any sequence of permute, reshape and
\* expand has stride 0 on each axis of size 1, and its contiguous flag is true
\* exactly when its strides are the default row-major strides of its shape.
C13_ViewCanonical ==
  /\ Len(view.strides) = Len(view.shape)
  /\ \A i \in 1..Len(view.shape) : view.shape[i] = 1 => view.strides[i] = 0
  /\ view.contiguous <=> (view.strides = stridesForShape(view.shape))

\* An expand returned a new, non-contiguous View that has an axis of size 1.
C13_ExpandedWithUnitAxis ==
  /\ vcall.op = "expand" /\ vcall.err = "none" /\ ~vcall.same
  /\ ~view.contiguous
  /\ \E i \in 1..Len(view.shape) : view.shape[i] = 1

-----------------------------------------------------------------------------
(* Claims about graph recording (checked under SpecOps) *)

\* t is src, or was built from src by movement operations that recorded it.
RECURSIVE MovedFrom(_, _)
MovedFrom(t, src) ==
  \/ t = src
  \/ /\ tensors[t].op.kind \in {"Reshape", "Permute", "Expand"}
     /\ tensors[t].op.inputs # <<>>
     /\ MovedFrom(tensors[t].op.inputs[1], src)

\* t stands for operand src in an Op: src itself, or a reshaped and expanded
\* alias of it that tracks gradients exactly when src does.
OperandOf(t, src) ==
  \/ t = src
  \/ /\ tensors[t].data = tensors[src].data
     /\ IF Truthy(tensors[src].requiresGrad)
        THEN Truthy(tensors[t].requiresGrad) /\ MovedFrom(t, src)
        ELSE ~Truthy(tensors[t].requiresGrad) /\ tensors[t].op = NoOp

OpKindOf(method) ==
  CASE method = "add" -> "Add" [] method = "sub" -> "Sub" [] method = "mul" -> "Mul"
    [] method = "sum" -> "Sum" [] method = "neg" -> "Neg"
    [] method = "permute" -> "Permute" [] method = "reshape" -> "Reshape"
    [] method = "expand" -> "Expand" [] OTHER -> "none"

\* The last call returned a tensor it built.
BuiltByLastCall ==
  /\ call.op \in {"add", "sub", "mul", "sum", "neg", "permute", "reshape", "expand"}
  /\ call.err = "none"
  /\ call.res > Len(call.pre)

\* C14: a tensor newly built by an elementwise, reduction or movement operation
\* has requiresGrad true exactly when at least one operand has, and carries an Op
\* exactly when its requiresGrad is true; the Op's inputs are the operand tensors
\* (possibly reshaped and broadcast-expanded) in positional order.
C14_RecordedIffOperandTracked ==
  BuiltByLastCall =>
    LET r == call.res
        operands == <<call.this>> \o
                    (IF call.op \in {"add", "sub", "mul"} THEN <<call.args[1]>> ELSE <<>>)
        tracked == \E i \in 1..Len(operands) : Truthy(call.pre[operands[i]].requiresGrad)
    IN  /\ Truthy(tensors[r].requiresGrad) <=> tracked
        /\ (tensors[r].op # NoOp) <=> Truthy(tensors[r].requiresGrad)
        /\ tracked =>
             /\ tensors[r].op.kind = OpKindOf(call.op)
             /\ Len(tensors[r].op.inputs) = Len(operands)
             /\ \A i \in 1..Len(operands) : OperandOf(tensors[r].op.inputs[i], operands[i])
        /\ \A t \in (Len(call.pre) + 1)..Len(tensors) :
             (tensors[t].op # NoOp) <=> Truthy(tensors[t].requiresGrad)

\* A binary operation of an operand with requiresGrad and a broadcast-expanded
\* operand without it built a tensor that carries an Op.
C14_MixedOperandsRecorded ==
  /\ BuiltByLastCall /\ call.op \in {"add", "sub", "mul"}
  /\ Truthy(tensors[call.this].requiresGrad)
  /\ ~Truthy(tensors[call.args[1]].requiresGrad)
  /\ tensors[call.res].op.inputs[2] # call.args[1]
  /\ tensors[call.res].op # NoOp

-----------------------------------------------------------------------------
(* Claims about gradient accumulation (checked under SpecGrad) *)

\* C15: after any backward call, every tensor whose requiresGrad is not true has
\* its grad field as it was before the call (absent if it was absent): gradients
\* are accumulated only into tensors with requiresGrad true.
C15_UntrackedGradUntouched ==
  call.op = "backward" =>
    \A t \in 1..Len(call.pre) :
      ~Truthy(call.pre[t].requiresGrad) =>
        tensors[t].grad = call.pre[t].grad

\* backward succeeded on the result of an operation on a tracked and an
\* untracked operand: the tracked one holds a gradient, the untracked one none.
C15_MixedGraphBackward ==
  /\ call.op = "backward" /\ call.err = "none"
  /\ tensors[call.this].op # NoOp
  /\ \E i, j \in 1..Len(tensors[call.this].op.inputs) :
       LET x == tensors[call.this].op.inputs[i]
           y == tensors[call.this].op.inputs[j]
       IN  /\ Truthy(tensors[x].requiresGrad) /\ tensors[x].grad # 0
           /\ ~Truthy(tensors[y].requiresGrad) /\ tensors[y].grad = 0

\* The last call was a backward the root accepts by the documented rules: the root
\* has requiresGrad, g is omitted or has exactly the root's shape, and a gradient
\* the root already holds has the root's shape.
SeedAccepted ==
  /\ call.op = "backward"
  /\ Truthy(call.pre[call.this].requiresGrad)
  /\ call.args[1] # 0 =>
       call.pre[call.args[1]].view.shape = call.pre[call.this].view.shape
  /\ call.pre[call.this].grad # 0 =>
       call.pre[call.pre[call.this].grad].view.shape = call.pre[call.this].view.shape

\* C16: backward(g) sets the root's gradient to its previous gradient plus g
\* elementwise, or, if the root had no gradient, to g itself or to ones of the
\* root's shape when g is omitted; a gradient the root holds is never removed.
C16_RootGradAccumulated ==
  call.op = "backward" =>
    LET r == call.this
        prev == call.pre[r].grad
    IN  /\ prev # 0 => tensors[r].grad # 0
        /\ SeedAccepted =>
             /\ tensors[r].grad # 0
             /\ shapeOf(World, tensors[r].grad) = shapeOf(World, r)
             /\ (prev = 0 /\ call.args[1] # 0) => tensors[r].grad = call.args[1]
             /\ \A c \in Coords(shapeOf(World, r)) :
                  Elem(World, tensors[r].grad, c) =
                    (IF prev = 0 THEN 0 ELSE Elem(WorldBefore, prev, c)) + SeedElem(c)

\* A second backward with an explicit gradient ran on a root of more than one
\* element that already held a gradient.
C16_SecondSeedAdded ==
  /\ SeedAccepted /\ call.err = "none" /\ call.args[1] # 0
  /\ call.pre[call.this].grad # 0
  /\ call.pre[call.this].op # NoOp
  /\ prod(shapeOf(World, call.this)) > 1

-----------------------------------------------------------------------------
(* Claims about a failing backward (checked under SpecMove) *)

\* C17: when backward fails part-way through the traversal (past its checks of
\* the root and of g), it leaves no partial results: the gradient of every
\* tensor, the root included, is the same as before the call.
C17_FailedBackwardLeavesNoGrads ==
  (/\ call.op = "backward"
   /\ call.err \notin {"none", "Tensor.backward:requiresGrad", "Tensor.backward:shape"}) =>
    GradsUnchanged

-----------------------------------------------------------------------------
(* Claims about gradient shapes (checked under SpecChain) *)

\* C18: after a backward() call on a graph without gradients, every tensor that
\* holds a gradient has gradient.shape exactly equal to its own shape, rank-0
\* results of sum and operands reshaped for broadcasting against a number
\* included.
C18_GradShapeIsOwnShape ==
  (call.op = "backward" /\ call.args[1] = 0 /\ NoGradsIn(call.pre)) =>
    \A t \in 1..Len(tensors) :
      tensors[t].grad # 0 => shapeOf(World, tensors[t].grad) = shapeOf(World, t)

-----------------------------------------------------------------------------
(* Claims about aliasing (checked under SpecAlias) *)

\* The position of coordinate c in the row-major order of a shape.
RowMajor(c, shape) == offsetFrom(c, rawStrides(shape), 1)

\* The shape the last movement call asked for.
AskedShape ==
  LET sx == call.pre[call.this].view.shape
  IN  CASE call.op = "permute" -> [i \in 1..Len(sx) |-> sx[call.args[1][i] + 1]]
        [] call.op \in {"reshape", "expand"} -> call.args[1]
        [] OTHER -> sx

\* The last call was a movement or detach with an argument the method accepts
\* by its documented rules, and it returned.
MovementCase ==
  /\ call.op \in MovementCalls /\ call.err = "none"
  /\ call.op = "reshape" => prod(call.args[1]) = prod(call.pre[call.this].view.shape)
  /\ call.op = "expand" => ExpandAllowed(call.pre[call.this].view.shape, call.args[1])

\* The coordinate of the source that coordinate c of the result names.
SourceCoord(c) ==
  LET sx == call.pre[call.this].view.shape
  IN  CASE call.op = "permute" -> Unpermuted(c, call.args[1])
        [] call.op = "reshape" ->
             CHOOSE d \in Coords(sx) : RowMajor(d, sx) = RowMajor(c, call.args[1])
        [] call.op = "expand" -> [i \in 1..Len(sx) |-> IF sx[i] = 1 THEN 0 ELSE c[i]]
        [] OTHER -> c

\* C19: reshape, permute, expand and detach return tensors on the buffer of their
\* source, so that a set through the result at coordinate c is read back by get
\* on the source at the corresponding coordinate, and a set through the source is
\* read back through the result at every coordinate that corresponds to it; the
\* tensor detach returns has requiresGrad not true, no Op and no gradient; add,
\* sub, mul, sum and neg leave every existing buffer as it was.
C19_AliasesShareBuffer ==
  [][/\ (MovementCase /\ call'.op = "set" /\ call'.this = call.res
          /\ call'.args[1] \in Coords(AskedShape)) =>
         /\ call'.err = "none"
         /\ buffers[tensors[call.res].data] = buffers[tensors[call.this].data]
         /\ Elem(WorldAfter, call.this, SourceCoord(call'.args[1])) = call'.args[2]
     /\ (MovementCase /\ call'.op = "set" /\ call'.this = call.this
          /\ call'.args[1] \in Coords(call.pre[call.this].view.shape)) =>
         /\ call'.err = "none"
         /\ \A c \in Coords(AskedShape) :
              SourceCoord(c) = call'.args[1] =>
                /\ Len(c) = Len(tensors[call.res].view.shape)
                /\ Elem(WorldAfter, call.res, c) = call'.args[2]
     /\ (call'.op = "detach" /\ call'.err = "none") =>
         /\ ~Truthy(tensors'[call'.res].requiresGrad)
         /\ tensors'[call'.res].op = NoOp
         /\ tensors'[call'.res].grad = 0
         /\ tensors'[call'.res].data = tensors'[call'.this].data
     /\ call'.op \in {"add", "sub", "mul", "sum", "neg"} =>
         /\ \A d \in 1..Len(buffers) : buffers'[d] = buffers[d]
         /\ call'.err = "none" => tensors'[call'.res].data > Len(buffers)]_vars

-----------------------------------------------------------------------------
(* Claims about the reshape round trip (checked under SpecReshape) *)

\* C20: for every shape s1 with the element count of x.shape,
\* x.reshape(s1).reshape(x.shape) succeeds, has shape x.shape and reads the value
\* of x at every coordinate; x.reshape(x.shape) returns x itself.
C20_ReshapeRoundTrip ==
  /\ (/\ call.op = "reshapeRoundTrip"
      /\ prod(call.args[1]) = prod(shapeOf(World, call.this))) =>
       /\ call.err = "none"
       /\ shapeOf(World, call.res) = shapeOf(World, call.this)
       /\ \A c \in Coords(shapeOf(World, call.this)) :
            get(World, call.res, c) = get(World, call.this, c)
  /\ (call.op = "reshape" /\ call.args[1] = shapeOf(World, call.this)) =>
       call.err = "none" /\ call.res = call.this

-----------------------------------------------------------------------------
(* Claims about the argument of permute (checked under SpecPermuteArgs) *)

\* C21: permute(order) fails unless order is a permutation of [0..ndim): an order
\* of the wrong length, with a repeated index or with an index outside [0, ndim)
\* is rejected and no View is returned.
C21_PermuteRejectsNonPermutation ==
  (vcall.op = "permute" /\ vcall.arg \notin Perms(Len(vcall.recv.shape))) =>
    vcall.err # "none"

-----------------------------------------------------------------------------
(* SpecGraph: up to two add/mul calls over the operands and their results, so
   that a tensor is reached along several paths, then one graph collection. *)

FewOps == NoCallYet \/ (call.op \in {"add", "mul"} /\ Len(call.pre) = 2)

Built == call.op \in {"add", "mul"}

NextGraph ==
  \/ FewOps /\ Add
  \/ FewOps /\ Mul
  \/ Built /\ Collect

\* Two operands, the first with requiresGrad, the second with or without.
InitGraphPair ==
  \E sa \in LeafShapes, sb \in LeafShapes, rb \in RequiresGradArgs :
    InitHeap(FromLiteral(FromLiteral(EmptyWorld, sa, "true"), sb, rb))

SpecGraph == InitGraphPair /\ [][NextGraph]_vars

\* The tensors a node's Op lists as inputs
InputsOf(w, n) ==
  {w.tensors[n].op.inputs[i] : i \in 1..Len(w.tensors[n].op.inputs)}

\* The tensors reachable from those of S through Op inputs
RECURSIVE ReachableFrom(_, _)
ReachableFrom(w, S) ==
  LET T == S \cup UNION {InputsOf(w, n) : n \in S}
  IN  IF T = S THEN S ELSE ReachableFrom(w, T)

\* C23: graph collection from a root returns every tensor reachable through Op
\* inputs exactly once, by identity, each node after all of its inputs.
C23_CollectedOnceInputsFirst ==
  call.op = "toposort" =>
    LET s == call.sorted
    IN  /\ {s[i] : i \in 1..Len(s)} = ReachableFrom(World, {call.this})
        /\ \A i, j \in 1..Len(s) : s[i] = s[j] => i = j
        /\ \A k \in 1..Len(s) : \A n \in InputsOf(World, s[k]) :
             \E j \in 1..(k - 1) : s[j] = n

\* A collection in which one tensor is an input of two collected nodes and two
\* distinct collected tensors hold the same data
C23_SharedInputCollected ==
  /\ call.op = "toposort"
  /\ \E i, j, k \in 1..Len(call.sorted) :
       /\ i # j
       /\ call.sorted[k] \in InputsOf(World, call.sorted[i])
       /\ call.sorted[k] \in InputsOf(World, call.sorted[j])
  /\ \E p, q \in 1..Len(call.sorted) :
       /\ p # q
       /\ tensors[call.sorted[p]].data = tensors[call.sorted[q]].data

(* SpecDiamond: up to MaxGraphOps add/mul calls over one operand and their
   results, then one backward(). *)

BuildingGraph == call.op \in {"none", "add", "mul"} /\ Len(tensors) <= MaxGraphOps

NextDiamond ==
  \/ BuildingGraph /\ Add
  \/ BuildingGraph /\ Mul
  \/ Built /\ BackwardDefault

SpecDiamond == InitOne /\ [][NextDiamond]_vars

\* The collected nodes that have an Op, in the graph as it was before the call
OpNodesBefore ==
  {n \in ReachableFrom(WorldBefore, {call.this}) :
     WorldBefore.tensors[n].op.kind # "none"}

\* The positions of the log at which node n's Op.backward was invoked
InvocationsOf(n) == {i \in 1..Len(call.log) : call.log[i].node = n}

\* C22: during one backward() call on a root with requiresGrad, the backward
\* of a collected node that has an Op is invoked at most once, after the
\* backward of every collected node that lists it as an input, and with the
\* gradient that holds all the contributions (the node's gradient at the end
\* of the call); when the call completes, it is invoked for every such node.
C22_EachOpOnceAfterConsumers ==
  (call.op = "backward" /\ Truthy(call.pre[call.this].requiresGrad)) =>
    /\ \A i \in 1..Len(call.log) : call.log[i].node \in OpNodesBefore
    /\ \A n \in OpNodesBefore :
         /\ Cardinality(InvocationsOf(n)) <= 1
         /\ call.err = "none" => Cardinality(InvocationsOf(n)) = 1
         /\ \A i \in InvocationsOf(n) :
              /\ tensors[n].grad = call.log[i].grad
              /\ \A m \in OpNodesBefore :
                   n \in InputsOf(WorldBefore, m) =>
                     \E j \in InvocationsOf(m) : j < i

\* A backward() over a graph in which one node with an Op is an input of two
\* collected nodes, and one in which a node lists the same tensor twice
C22_DiamondBackward ==
  /\ call.op = "backward"
  /\ call.err = "none"
  /\ \E n, m1, m2 \in OpNodesBefore :
       /\ m1 # m2
       /\ n \in InputsOf(WorldBefore, m1)
       /\ n \in InputsOf(WorldBefore, m2)

C22_SameTensorTwiceBackward ==
  /\ call.op = "backward"
  /\ call.err = "none"
  /\ \E n, m \in OpNodesBefore :
       WorldBefore.tensors[m].op.inputs = <<n, n>>

\* The tensors the last call created
CreatedByCall == (Len(call.pre) + 1)..Len(tensors)

\* Tensor t has no Op and requiresGrad is not true
Untracked(t) == tensors[t].op.kind = "none" /\ ~Truthy(tensors[t].requiresGrad)

\* C24: after backward(), with the default or an explicit seed, every tensor
\* the call produced and every gradient a tensor holds has no Op and
\* requiresGrad not true, no tensor that existed before has another Op, and
\* the tensors reachable from the root through Op inputs are as before.
C24_BackwardUntracked ==
  call.op = "backward" =>
    /\ \A t \in CreatedByCall : Untracked(t)
    /\ \A t \in 1..Len(tensors) : tensors[t].grad # 0 => Untracked(tensors[t].grad)
    /\ \A t \in 1..Len(call.pre) : tensors[t].op = call.pre[t].op
    /\ ReachableFrom(World, {call.this}) = ReachableFrom(WorldBefore, {call.this})

-----------------------------------------------------------------------------
(* SpecIndices: the generators of one View.  vcall.gens lists the generator
   objects indices() has returned, each with its position in the generator
   body (at), its locals (indices, i, size) and the arrays its consumer has
   received (out); buffers is the heap of arrays, an array's identity being
   its position. *)

NewGenerator == [at |-> "start", indices |-> 0, i |-> 0, size |-> 0, out |-> <<>>]

\* A faulty yield: the generator's own array is handed out.
yieldSame(arrays, indices) == [arrays |-> arrays, id |-> indices]

\* yield [...indices]: a new array with the elements of the generator's array
yieldCopy(arrays, indices) ==
  [arrays |-> Append(arrays, arrays[indices]), id |-> Len(arrays) + 1]

\* for (...; i < size; ...) { yield [...indices]; ... }: the loop test, then
\* the yield or the end of the generator
loopTest(arrays, g) ==
  IF g.i < g.size
  THEN With(yieldCopy(arrays, g.indices), LAMBDA y :
         [arrays |-> y.arrays, gen |-> [g EXCEPT !.at = "yield", !.out = Append(@, y.id)]])
  ELSE [arrays |-> arrays, gen |-> [g EXCEPT !.at = "end"]]

\* One next() of generator g of View this: the body runs up to its next yield
generatorNext(arrays, this, g) ==
  CASE g.at = "start" ->
         loopTest(Append(arrays, [j \in 1..Len(this.shape) |-> 0]),
                  [g EXCEPT !.indices = Len(arrays) + 1, !.size = prod(this.shape)])
    [] g.at = "yield" ->
         loopTest([arrays EXCEPT ![g.indices] = carry(this.shape, @, Len(this.shape) - 1)],
                  [g EXCEPT !.i = @ + 1])
    [] g.at = "end" -> [arrays |-> arrays, gen |-> g]

VIndices ==
  /\ Len(vcall.gens) < MaxGenerators
  /\ vcall' = [vcall EXCEPT !.gens = Append(@, NewGenerator)]
  /\ UNCHANGED <<state, drawn, view, tensors, buffers, held, call, nback>>

VGeneratorNext ==
  \E k \in 1..Len(vcall.gens) :
    /\ vcall.gens[k].at # "end"
    /\ LET r == generatorNext(buffers, view, vcall.gens[k])
       IN  /\ buffers' = r.arrays
           /\ vcall' = [vcall EXCEPT !.gens[k] = r.gen]
    /\ UNCHANGED <<state, drawn, view, tensors, held, call, nback>>

InitIndices ==
  /\ view \in {View(s) : s \in Shapes}
  /\ vcall = [op |-> "indices", gens |-> <<>>]
  /\ tensors = <<>>
  /\ buffers = <<>>
  /\ held = {}
  /\ call = NoCall
  /\ nback = 0
  /\ state = 0
  /\ drawn = <<>>

NextIndices == VIndices \/ VGeneratorNext

SpecIndices == InitIndices /\ [][NextIndices]_vars

\* The k-th coordinate tuple of shape in row-major order, k from 0
Unravel(shape, k) ==
  [j \in 1..Len(shape) |->
     (k \div prod(SubSeq(shape, j + 1, Len(shape)))) % shape[j]]

\* The tuples generator gen has yielded, as its consumer reads them now
TuplesOf(gen) == [k \in 1..Len(gen.out) |-> buffers[gen.out[k]]]

\* C25: the tuples a generator of indices() has yielded are, as read at any
\* later time, the first coordinates of the shape in row-major order from the
\* all-zero one, whatever other generators have done; a finished generator
\* has yielded product(shape) tuples, every in-range coordinate exactly once.
C25_IndicesRowMajor ==
  vcall.op = "indices" =>
    \A g \in 1..Len(vcall.gens) :
      LET gen == vcall.gens[g]
      IN  /\ Len(gen.out) <= prod(view.shape)
          /\ \A k \in 1..Len(gen.out) : TuplesOf(gen)[k] = Unravel(view.shape, k - 1)
          /\ gen.at = "end" =>
               /\ Len(gen.out) = prod(view.shape)
               /\ {TuplesOf(gen)[k] : k \in 1..Len(gen.out)} = Coords(view.shape)

\* Two generators of a View of rank 2 or more, run to their ends in turns
C25_TwoGeneratorsInterleaved ==
  /\ vcall.op = "indices"
  /\ Len(view.shape) >= 2
  /\ prod(view.shape) = MaxNumel
  /\ Len(vcall.gens) = 2
  /\ vcall.gens[1].at = "end"
  /\ vcall.gens[2].at = "end"
  /\ vcall.gens[2].indices < vcall.gens[1].out[MaxNumel]
  /\ vcall.gens[1].indices < vcall.gens[2].out[2]
  /\ vcall.gens[2].out[1] < vcall.gens[1].out[2]

-----------------------------------------------------------------------------
(* SpecTwoSums: a sum of the operand, a sum of the operand or of that result,
   then one backward(). *)

FirstSumDone == call.op = "sum" /\ call.err = "none" /\ Len(call.pre) = 1

NextTwoSums ==
  \/ NoCallYet /\ Sum
  \/ FirstSumDone /\ Sum
  \/ call.op = "sum" /\ BackwardDefault

SpecTwoSums == InitOne /\ [][NextTwoSums]_vars

\* Tensor t is s.sum(axis) with keepDim = false, axis one of s's axes
ReducedFrom(w, t, s) ==
  /\ w.tensors[t].op.kind = "Sum"
  /\ w.tensors[t].op.inputs = <<s>>
  /\ w.tensors[t].op.axis \in 0..(ndim(w, s) - 1)
  /\ ~w.tensors[t].op.keepDim

\* The last call was backward() from x.sum(a).sum(b), both with keepDim = false,
\* x a tensor of rank 2 or more from Tensor.from with requiresGrad
TwoSumsBackwardOf(x) ==
  /\ call.op = "backward"
  /\ call.args = <<0>>
  /\ WorldBefore.tensors[x].op.kind = "none"
  /\ Truthy(WorldBefore.tensors[x].requiresGrad)
  /\ Len(WorldBefore.tensors[x].view.shape) >= 2
  /\ \E y \in 1..Len(call.pre) :
       /\ ReducedFrom(WorldBefore, y, x)
       /\ ReducedFrom(WorldBefore, call.this, y)

\* C26: backward() from x.sum(a).sum(b), keepDim = false, x of rank >= 2 with
\* requiresGrad, completes without error and leaves x.grad equal to ones of
\* x's shape.
C26_TwoSumsBackward ==
  \A x \in 1..Len(call.pre) :
    TwoSumsBackwardOf(x) =>
      /\ call.err = "none"
      /\ tensors[x].grad # 0
      /\ shapeOf(World, tensors[x].grad) = shapeOf(World, x)
      /\ \A c \in Coords(shapeOf(World, x)) : get(World, tensors[x].grad, c).value = 1

-----------------------------------------------------------------------------
(* SpecDotGrad: one dot of the two operands, then one backward(). *)

NextDotGrad ==
  \/ NoCallYet /\ Dot
  \/ call.op = "dot" /\ BackwardDefault

\* The matrix shapes of the operands: one size more than MaxDim, so that a
\* transposed operand that is neither square nor a single row or column occurs.
MatrixShapes == {s \in [1..2 -> 1..(MaxDim + 1)] : prod(s) <= MaxNumel + 2}

\* Two matrices, each with or without requiresGrad.
InitMatrixPair ==
  \E sa \in MatrixShapes, sb \in MatrixShapes, ra \in RequiresGradArgs, rb \in RequiresGradArgs :
    InitHeap(FromLiteral(FromLiteral(EmptyWorld, sa, ra), sb, rb))

SpecDotGrad == InitMatrixPair /\ [][NextDotGrad]_vars

\* The tensor from Tensor.from that t was derived from through first inputs
RECURSIVE SourceOf(_, _)
SourceOf(w, t) ==
  IF w.tensors[t].op.kind = "none" THEN t ELSE SourceOf(w, w.tensors[t].op.inputs[1])

\* The last call was r.backward() for r = a.dot(b), a of shape (m,k) and b of
\* shape (k,n) two tensors with requiresGrad
DotBackwardOf(a, b) ==
  /\ call.op = "backward"
  /\ call.args = <<0>>
  /\ a # b
  /\ Truthy(call.pre[a].requiresGrad)
  /\ Truthy(call.pre[b].requiresGrad)
  /\ Len(call.pre[a].view.shape) = 2
  /\ Len(call.pre[b].view.shape) = 2
  /\ call.pre[call.this].op.kind = "Sum"
  /\ LET product == call.pre[call.pre[call.this].op.inputs[1]]
     IN  /\ product.op.kind = "Mul"
         /\ SourceOf(WorldBefore, product.op.inputs[1]) = a
         /\ SourceOf(WorldBefore, product.op.inputs[2]) = b

\* C27: a.dot(b).backward(), a of shape (m,k) and b of shape (k,n) with
\* requiresGrad, completes without error and leaves a.grad of shape (m,k)
\* with a.grad[i][t] the sum over j of b[t][j], and b.grad of shape (k,n)
\* with b.grad[t][j] the sum over i of a[i][t].
C27_DotBackward ==
  \A a, b \in 1..Len(call.pre) :
    DotBackwardOf(a, b) =>
      LET sa == shapeOf(World, a)
          sb == shapeOf(World, b)
      IN  /\ call.err = "none"
          /\ tensors[a].grad # 0
          /\ tensors[b].grad # 0
          /\ shapeOf(World, tensors[a].grad) = sa
          /\ shapeOf(World, tensors[b].grad) = sb
          /\ \A i \in 0..(sa[1] - 1), t \in 0..(sa[2] - 1) :
               Elem(World, tensors[a].grad, <<i, t>>) =
                 SeqSum([j \in 1..sb[2] |-> Elem(World, b, <<t, j - 1>>)])
          /\ \A t \in 0..(sb[1] - 1), j \in 0..(sb[2] - 1) :
               Elem(World, tensors[b].grad, <<t, j>>) =
                 SeqSum([i \in 1..sa[1] |-> Elem(World, a, <<i - 1, t>>)])

-----------------------------------------------------------------------------
\* The tensors that hold a gradient
WithGrad == {t \in 1..Len(tensors) : tensors[t].grad # 0}

\* C28: after backward(), no two distinct tensors hold the same gradient
\* Tensor or gradients backed by the same buffer, and no tensor's gradient is
\* the seed the caller passed.
C28_GradientsNotShared ==
  call.op = "backward" =>
    /\ \A t, u \in WithGrad :
         t # u => /\ tensors[t].grad # tensors[u].grad
                  /\ tensors[tensors[t].grad].data # tensors[tensors[u].grad].data
    /\ \A t \in WithGrad : call.args[1] # 0 => tensors[t].grad # call.args[1]

-----------------------------------------------------------------------------
(* SpecUniform: one Tensor.uniform call.  A sample of the random source, a
   number in [0, 1), is the multiple k / UnitSteps, held as its numerator k;
   low and high are whole numbers, so every element of the result is held in
   the same unit. *)

Samples == 0..(UnitSteps - 1)

\* Tensor.rand(shape, requiresGrad), draws the values random.randomFloat()
\* returns, in order
Tensor_rand(w, shape, requiresGrad, draws) ==
  NewTensor(NewBuffer(w, draws), Len(w.buffers) + 1, View(shape), requiresGrad, NoOp)

\* Tensor.uniform(shape, low, high, requiresGrad)
Tensor_uniform(w, shape, low, high, requiresGrad, draws) ==
  With(Tensor_rand(w, shape, "undefined", draws), LAMBDA r :
    With(mulNumber(r.w, r.id, high - low), LAMBDA result :
      IF result.err # "none" THEN result
      ELSE Ret([result.w EXCEPT !.tensors[result.id].requiresGrad = requiresGrad],
               result.id)))

UniformShapes == {s \in Shapes : prod(s) <= MaxDim}

UniformLimits == (0 - MaxDim)..MaxDim

Uniform ==
  \E shape \in UniformShapes, low \in UniformLimits, high \in UniformLimits,
     requiresGrad \in RequiresGradArgs :
    \E draws \in [1..prod(shape) -> Samples] :
      Returned("uniform", 0, <<shape, low, high>>,
               Tensor_uniform(World, shape, low, high, requiresGrad, draws))

InitEmpty == InitHeap(EmptyWorld)

NextUniform == NoCallYet /\ Uniform

SpecUniform == InitEmpty /\ [][NextUniform]_vars

\* C29: Tensor.uniform(shape, low, high) with low < high returns a tensor of
\* the given shape whose every element lies in [low, high), the samples of
\* the random source lying in [0, 1).
C29_UniformInRange ==
  (call.op = "uniform" /\ call.args[2] < call.args[3]) =>
    /\ call.err = "none"
    /\ shapeOf(World, call.res) = call.args[1]
    /\ \A c \in Coords(shapeOf(World, call.res)) :
         /\ call.args[2] * UnitSteps <= Elem(World, call.res, c)
         /\ Elem(World, call.res, c) < call.args[3] * UnitSteps

-----------------------------------------------------------------------------
(* ops.ts: the linear congruential generator.  Its numbers are JavaScript
   Numbers, binary64 floating point: a product or sum that needs more than
   DoubleBits significant bits is rounded to the nearest representable
   number, ties to even.  a * state reaches 2^61, beyond the integers of
   TLC, so the arithmetic is carried out on numbers written as sequences of
   digits in base Base, the least significant first. *)

lcgA == 1103515245
lcgC == 12345
\* const m = 0x80000000, as its exponent: m = 2^lcgMBits
lcgMBits == 31
\* m - 1
mMinus1 == (2^30 - 1) + 2^30

DoubleBits == 53

Base == 2^15

RECURSIVE BitLength(_)
BitLength(n) == IF n = 0 THEN 0 ELSE 1 + BitLength(n \div 2)

LimbBits == BitLength(Base - 1)

RECURSIVE ToLimbs(_)
ToLimbs(n) == IF n = 0 THEN <<>> ELSE <<n % Base>> \o ToLimbs(n \div Base)

\* x without its leading zero digits
RECURSIVE Trim(_)
Trim(x) ==
  IF x # <<>> /\ x[Len(x)] = 0 THEN Trim(SubSeq(x, 1, Len(x) - 1)) ELSE x

RECURSIVE AddLimbs(_, _, _)
AddLimbs(x, y, over) ==
  IF x = <<>> /\ y = <<>> THEN ToLimbs(over)
  ELSE LET v == (IF x = <<>> THEN 0 ELSE Head(x)) + (IF y = <<>> THEN 0 ELSE Head(y)) + over
       IN  <<v % Base>> \o AddLimbs(IF x = <<>> THEN <<>> ELSE Tail(x),
                                    IF y = <<>> THEN <<>> ELSE Tail(y), v \div Base)

RECURSIVE TimesLimb(_, _, _)
TimesLimb(x, d, over) ==
  IF x = <<>> THEN ToLimbs(over)
  ELSE LET v == Head(x) * d + over
       IN  <<v % Base>> \o TimesLimb(Tail(x), d, v \div Base)

\* The exact product
RECURSIVE Times(_, _)
Times(x, y) ==
  IF y = <<>> THEN <<>>
  ELSE Trim(AddLimbs(TimesLimb(x, Head(y), 0), <<0>> \o Times(x, Tail(y)), 0))

\* The number of significant bits of x
BitsOf(x) ==
  IF Trim(x) = <<>> THEN 0
  ELSE LimbBits * (Len(Trim(x)) - 1) + BitLength(Trim(x)[Len(Trim(x))])

\* A faulty arithmetic: exact, as over the integers.
RoundExact(x) == Trim(x)

\* The Number nearest to the exact value x, ties to even.  At most LimbBits
\* bits are dropped: x is below 2^(DoubleBits + LimbBits), as is every
\* a * state + c with state below m.
RoundToDouble(x) ==
  LET k == BitsOf(x) - DoubleBits
  IN  IF k <= 0 THEN Trim(x)
      ELSE LET p == 2^k
               r == x[1] % p
               down == [Trim(x) EXCEPT ![1] = @ - r]
               odd == IF k = LimbBits THEN x[2] % 2 = 1 ELSE (x[1] \div p) % 2 = 1
           IN  IF 2 * r > p \/ (2 * r = p /\ odd)
               THEN AddLimbs(down, ToLimbs(p), 0)
               ELSE down

Limb(x, i) == IF i <= Len(x) THEN x[i] ELSE 0

\* x % m, exact for Numbers
ModM(x) ==
  Limb(x, 1) + Base * Limb(x, 2) + Base * Base * (Limb(x, 3) % 2^(lcgMBits - 2 * LimbBits))

\* randomInt(): state = (a * state + c) % m; return state
randomInt(st) ==
  ModM(RoundToDouble(AddLimbs(RoundToDouble(Times(ToLimbs(lcgA), ToLimbs(st))),
                              ToLimbs(lcgC), 0)))

\* randomFloat(): randomInt() / (m - 1), kept as the fraction num / den: the
\* quotient of two whole numbers below 2^31 is 1 exactly when they are equal
\* and otherwise differs from 1 by more than the spacing of the Numbers near 1
randomFloat(st) == [num |-> randomInt(st), den |-> mMinus1]

(* SpecRandom: the generator starts from a state the module load chose; the
   caller seeds it and draws. *)

\* The seeds tried: the ends of the range, the largest state with an exact
\* a * state + c, and the state whose exact successor would be m - 1
SeedValues == {0, 1, 8162278, 230538014, mMinus1 - 1, mMinus1}

ThisRun == drawn[Len(drawn)]

Drawn(fn, st) ==
  /\ Len(ThisRun.draws) < MaxDraws
  /\ drawn' = [drawn EXCEPT ![Len(drawn)].draws = Append(@, [fn |-> fn, state |-> st])]

Seed ==
  /\ Len(drawn) < MaxRuns
  /\ \E value \in SeedValues :
       /\ state' = value
       /\ drawn' = Append(drawn, [seed |-> value, draws |-> <<>>])
  /\ UNCHANGED <<view, vcall, tensors, buffers, held, call, nback>>

RandomInt ==
  /\ state' = randomInt(state)
  /\ Drawn("randomInt", state')
  /\ UNCHANGED <<view, vcall, tensors, buffers, held, call, nback>>

RandomFloat ==
  /\ state' = randomFloat(state).num
  /\ Drawn("randomFloat", state')
  /\ UNCHANGED <<view, vcall, tensors, buffers, held, call, nback>>

\* let state = Math.floor(Math.random() * (m - 1))
InitRandom ==
  /\ view = View(<<>>)
  /\ vcall = NoVCall
  /\ tensors = <<>>
  /\ buffers = <<>>
  /\ held = {}
  /\ call = NoCall
  /\ nback = 0
  /\ state \in SeedValues \ {mMinus1}
  /\ drawn = <<[seed |-> state, draws |-> <<>>]>>

NextRandom == Seed \/ RandomInt \/ RandomFloat

SpecRandom == InitRandom /\ [][NextRandom]_vars

\* C30: the state and every randomInt() are in [0, 2^31), every randomFloat()
\* is in [0, 1) and never 1, and two runs seeded with the same value draw the
\* same sequence.
C30_RandomInRange ==
  /\ 0 <= state /\ state <= mMinus1
  /\ \A r \in 1..Len(drawn) : \A k \in 1..Len(drawn[r].draws) :
       LET d == drawn[r].draws[k]
       IN  /\ 0 <= d.state /\ d.state <= mMinus1
           /\ d.fn = "randomFloat" => d.state < mMinus1
  /\ \A r, q \in 1..Len(drawn) :
       drawn[r].seed = drawn[q].seed =>
         \A k \in 1..Min(Len(drawn[r].draws), Len(drawn[q].draws)) :
           drawn[r].draws[k].state = drawn[q].draws[k].state

\* Two runs from the seed whose exact successor would be m - 1, both drawn to
\* the end, the first draw of one a randomFloat()
C30_SameSeedTwice ==
  \E r, q \in 1..Len(drawn) :
    /\ r # q
    /\ drawn[r].seed = 230538014
    /\ drawn[q].seed = 230538014
    /\ Len(drawn[r].draws) = MaxDraws
    /\ Len(drawn[q].draws) = MaxDraws
    /\ drawn[r].draws[1].fn = "randomFloat"

=============================================================================
